---- MODULE Spec2Model ----
(***************************************************************************)
(* Model of the Concerto model registry: BaseModelManager                  *)
(* (packages/concerto-core/lib/basemodelmanager.js) and ModelFile          *)
(* (packages/concerto-core/lib/introspect/modelfile.js), and of the tools   *)
(* that read it: the C# code generator                                     *)
(* (packages/concerto-tools/lib/codegen/fromcto/csharp/csharpvisitor.js),  *)
(* the Serializer and the InstanceGenerator; and of the StringValidator    *)
(* (packages/concerto-core/lib/introspect/stringvalidator.js).             *)
(*                                                                         *)
(* Names (namespaces, short names, fully qualified names) are sequences of *)
(* one-character strings, so that String.startsWith, lastIndexOf and '+'   *)
(* are computed character by character as the JavaScript does.             *)
(***************************************************************************)
EXTENDS Integers, Sequences, FiniteSets, TLC

VARIABLES
    modelFiles,   \* this.modelFiles: namespace -> ModelFile
    last,         \* the latest call made on the manager and its outcome
    download,     \* "pending" while updateExternalModels awaits its download
    fileWriter,   \* parameters.fileWriter of the code generator
    visitor,      \* where CSharpVisitor.visitModelFile is in the file it visits
    defaultOptions, \* the default options of the Serializer
    result,       \* the latest call of the Serializer, the InstanceGenerator or a validator and its outcome
    regex,        \* this.regex of the StringValidator
    verdicts,     \* the values validated by the StringValidator, each with what validate threw
    pending,      \* the model files visitModelManager has yet to visit
    written,      \* the calls made on the fileWriter since the visit began
    called        \* this.modelFiles when updateExternalModels was last called

\* the state of the model manager
manager == <<modelFiles, last, download, called>>

\* the state of the code generator
codegen == <<fileWriter, visitor>>

\* the state of the tools that read the models
tools == <<fileWriter, visitor, defaultOptions, result, regex, verdicts, pending, written, called>>

\* the state of the StringValidator
validators == <<regex, verdicts>>

\* the progress of visitModelManager
visits == <<pending, written>>

vars == <<modelFiles, last, download, fileWriter, visitor, defaultOptions, result,
          regex, verdicts, pending, written, called>>

----------------------------------------------------------------------------
(* Bounds *)

\* longest array handed to addModelFiles / fromAst / returned by the downloader
MaxBatch == 2

\* longest stack of types being generated that a field is visited with
MaxSeen == 2

----------------------------------------------------------------------------
(* Strings *)

Dot == <<".">>

\* String.prototype.startsWith
startsWith(s, p) == Len(p) <= Len(s) /\ SubSeq(s, 1, Len(p)) = p

\* String.prototype.lastIndexOf('.'), 1-based; 0 stands for JavaScript's -1
lastDot(s) ==
    IF \E i \in 1..Len(s) : s[i] = "."
    THEN CHOOSE i \in 1..Len(s) : s[i] = "." /\ \A j \in (i+1)..Len(s) : s[j] # "."
    ELSE 0

ConcertoNs == <<"c","o","n","c","e","r","t","o">>

Concept     == <<"C","o","n","c","e","p","t">>
Asset       == <<"A","s","s","e","t">>
Participant == <<"P","a","r","t","i","c","i","p","a","n","t">>
Transaction == <<"T","r","a","n","s","a","c","t","i","o","n">>
Event       == <<"E","v","e","n","t">>

\* ModelUtil.isPrimitiveType: the closed set of primitive type names
primitiveTypes ==
    { <<"B","o","o","l","e","a","n">>, <<"S","t","r","i","n","g">>,
      <<"D","a","t","e","T","i","m","e">>, <<"D","o","u","b","l","e">>,
      <<"I","n","t","e","g","e","r">>, <<"L","o","n","g">> }

isPrimitiveType(typeName) == typeName \in primitiveTypes

\* ModelUtil.getNamespace: everything before the last dot, '' when there is none
getNamespace(fqn) ==
    IF lastDot(fqn) > 0 THEN SubSeq(fqn, 1, lastDot(fqn) - 1) ELSE <<>>

\* ModelUtil.importFullyQualifiedName
importFullyQualifiedName(imp) ==
    IF imp.class = "ImportAll"
    THEN imp.namespace \o Dot \o <<"*">>
    ELSE imp.namespace \o Dot \o imp.name

----------------------------------------------------------------------------
(* Metamodel ASTs *)

NoSuper == <<>>

ImportType(ns, name) == [class |-> "ImportType", namespace |-> ns, name |-> name]
ImportAll(ns)        == [class |-> "ImportAll",  namespace |-> ns, name |-> <<>>]

Decl(class, name, super) == [class |-> class, name |-> name, superType |-> super]

Model(ns, imports, declarations, fileName) ==
    [namespace |-> ns, imports |-> imports, declarations |-> declarations,
     fileName |-> fileName]

\* rootmodel.js: the built-in model of namespace concerto
rootModelFile == "concerto.cto"

rootModelAst ==
    Model(ConcertoNs, <<>>,
          << Decl("ConceptDeclaration", Concept, NoSuper),
             Decl("ConceptDeclaration", Asset, NoSuper),
             Decl("ConceptDeclaration", Participant, NoSuper),
             Decl("ConceptDeclaration", Transaction, NoSuper),
             Decl("ConceptDeclaration", Event, NoSuper) >>,
          rootModelFile)

----------------------------------------------------------------------------
(* ModelFile *)

\* the index of the last TRUE of a sequence of booleans, 0 when there is none
\* (a Map.set of an existing key overwrites: the last writer wins)
LastIndex(flags) ==
    IF \E i \in 1..Len(flags) : flags[i]
    THEN CHOOSE i \in 1..Len(flags) : flags[i] /\ \A j \in (i+1)..Len(flags) : ~flags[j]
    ELSE 0

\* the five imports fromAst pushes for every namespace but concerto
implicitImports ==
    << ImportType(ConcertoNs, Concept), ImportType(ConcertoNs, Asset),
       ImportType(ConcertoNs, Transaction), ImportType(ConcertoNs, Participant),
       ImportType(ConcertoNs, Event) >>

knownDeclarations ==
    { "AssetDeclaration", "TransactionDeclaration", "EventDeclaration",
      "ParticipantDeclaration", "EnumDeclaration", "ConceptDeclaration" }

\* the default super type fromAst gives a declaration that names none
defaultSuperType(thing) ==
    IF thing.superType # NoSuper THEN thing.superType
    ELSE CASE thing.class = "AssetDeclaration"       -> Asset
           [] thing.class = "TransactionDeclaration" -> Transaction
           [] thing.class = "EventDeclaration"       -> Event
           [] thing.class = "ParticipantDeclaration" -> Participant
           [] OTHER                                  -> NoSuper

\* the ClassDeclaration object fromAst builds for ast.declarations[n]
ClassDeclaration(ast, n) ==
    [modelFile |-> ast.fileName,
     namespace |-> ast.namespace,
     name      |-> ast.declarations[n].name,
     class     |-> ast.declarations[n].class,
     superType |-> defaultSuperType(ast.declarations[n])]

\* the built-in imports pushed before the imports of the AST
fromAstImportsFirst(ast) ==
    IF ast.namespace # ConcertoNs THEN implicitImports \o ast.imports ELSE ast.imports

\* ModelFile.fromAst: imports, importShortNames, importWildcardNamespaces, declarations
fromAstImports(ast) ==
    IF ast.namespace # ConcertoNs THEN ast.imports \o implicitImports ELSE ast.imports

\* new ModelFile(manager, ast, ...): thrown is "none" or the error of the
\* constructor. imports and declarations are the arrays fromAst fills; the
\* maps importShortNames and localTypes and the array importWildcardNamespaces
\* are read off them by the operators below
NewModelFile(ast) ==
    IF \E n \in 1..Len(ast.declarations) : ast.declarations[n].class \notin knownDeclarations
    THEN [thrown |-> "IllegalModel", mf |-> <<>>]
    ELSE [thrown |-> "none",
          mf |-> [namespace    |-> ast.namespace,
                  fileName     |-> ast.fileName,
                  ast          |-> ast,
                  imports      |-> fromAstImports(ast),
                  declarations |->
                      [n \in 1..Len(ast.declarations) |-> ClassDeclaration(ast, n)] \o <<>>]]

\* this.importShortNames.has(type)
importShortNamesHas(mf, type) ==
    \E i \in 1..Len(mf.imports) : mf.imports[i].class # "ImportAll" /\ mf.imports[i].name = type

\* this.importShortNames.get(type): the last import of that name was set last
importShortNamesGet(mf, type) ==
    importFullyQualifiedName(
        mf.imports[LastIndex([i \in 1..Len(mf.imports) |->
            mf.imports[i].class # "ImportAll" /\ mf.imports[i].name = type])])

\* this.importWildcardNamespaces
importWildcardNamespaces(mf) ==
    LET wild == SelectSeq(mf.imports, LAMBDA imp : imp.class = "ImportAll")
    IN [i \in 1..Len(wild) |-> wild[i].namespace]

\* this.localTypes.has(fqn)
localTypesHas(mf, fqn) ==
    \E n \in 1..Len(mf.declarations) : mf.namespace \o Dot \o mf.declarations[n].name = fqn

\* this.localTypes.get(fqn): the last declaration of that name was set last
localTypesGet(mf, fqn) ==
    mf.declarations[LastIndex([n \in 1..Len(mf.declarations) |->
        mf.namespace \o Dot \o mf.declarations[n].name = fqn])]

\* a null result of a lookup
Null == [null |-> TRUE]

\* ModelFile.getLocalType
getLocalType(mf, type) ==
    LET t == IF ~startsWith(type, mf.namespace) THEN mf.namespace \o Dot \o type ELSE type
    IN IF localTypesHas(mf, t) THEN localTypesGet(mf, t) ELSE Null

\* ModelFile.isLocalType: type && getLocalType(type) !== null
isLocalType(mf, type) == type # <<>> /\ getLocalType(mf, type) # Null

\* the names this.modelFiles, a plain object ({}), inherits from
\* Object.prototype whatever it holds (among them)
objectPrototype ==
    { <<"v","a","l","u","e","O","f">>,
      <<"t","o","S","t","r","i","n","g">>,
      <<"c","o","n","s","t","r","u","c","t","o","r">> }

\* what an inherited name reads as: a function, truthy, and no ModelFile
Inherited == [inherited |-> TRUE]

\* BaseModelManager.getModelFile, this.modelFiles[namespace]: the own entry,
\* else the member inherited from Object.prototype, else undefined (Null)
getModelFile(files, namespace) ==
    IF namespace \in DOMAIN files THEN files[namespace]
    ELSE IF namespace \in objectPrototype THEN Inherited
    ELSE Null

\* a value returned or an exception thrown
Return(ret)   == [thrown |-> "none", ret |-> ret]
Throw(thrown) == [thrown |-> thrown, ret |-> Null]

\* one turn of the loop of isImportedType and resolveImport:
\* modelFile && modelFile.isLocalType(type), where calling isLocalType of an
\* inherited function is a TypeError
wildcardHit(files, namespace, type) ==
    IF getModelFile(files, namespace) = Null THEN "miss"
    ELSE IF getModelFile(files, namespace) = Inherited THEN "TypeError"
    ELSE IF isLocalType(files[namespace], type) THEN "hit"
    ELSE "miss"

\* the turns of that loop over this.importWildcardNamespaces
wildcardHits(files, mf, type) ==
    [i \in 1..Len(importWildcardNamespaces(mf)) |->
        wildcardHit(files, importWildcardNamespaces(mf)[i], type)]

\* the index of the last turn that does not miss, 0 when every turn misses
lastHit(hits) ==
    IF \E i \in 1..Len(hits) : hits[i] # "miss"
    THEN CHOOSE i \in 1..Len(hits) : hits[i] # "miss" /\ \A j \in (i+1)..Len(hits) : hits[j] = "miss"
    ELSE 0

\* the index of the first turn that ends the loop, 0 when every turn misses
firstHit(hits) ==
    IF \E i \in 1..Len(hits) : hits[i] # "miss"
    THEN CHOOSE i \in 1..Len(hits) : hits[i] # "miss" /\ \A j \in 1..(i-1) : hits[j] = "miss"
    ELSE 0

\* how the loop ends at turn index: it returns there, or throws there, or
\* (index 0) runs to its end
wildcardEnd(hits, index) ==
    IF index # 0 /\ hits[index] = "TypeError" THEN Throw("TypeError") ELSE Return(index)

\* the loop of isImportedType and resolveImport: the index of the first
\* wildcard-imported namespace that is registered with a local type of that
\* name, 0 when there is none
wildcardIndex(files, mf, type) ==
    wildcardEnd(wildcardHits(files, mf, type), firstHit(wildcardHits(files, mf, type)))

\* the end of isImportedType, w being the outcome of its loop
importedByWildcard(w) ==
    IF w.thrown # "none" THEN w ELSE Return(w.ret # 0)

\* ModelFile.isImportedType
isImportedType(files, mf, type) ==
    IF importShortNamesHas(mf, type) THEN Return(TRUE)
    ELSE importedByWildcard(wildcardIndex(files, mf, type))

\* the end of resolveImport, w being the outcome of its loop: throws when no
\* wildcard import provides the type
resolveWildcard(mf, type, w) ==
    IF w.thrown # "none" THEN w
    ELSE IF w.ret # 0 THEN Return(importWildcardNamespaces(mf)[w.ret] \o Dot \o type)
    ELSE Throw("IllegalModel")

\* ModelFile.resolveImport: the fully qualified name, or the exception thrown
resolveImport(files, mf, type) ==
    IF importShortNamesHas(mf, type) THEN Return(importShortNamesGet(mf, type))
    ELSE resolveWildcard(mf, type, wildcardIndex(files, mf, type))

\* BaseModelManager.resolveType(context, type): "none" or the exception thrown
managerResolveType(files, type) ==
    IF isPrimitiveType(type) THEN "none"
    ELSE IF getModelFile(files, getNamespace(type)) = Null THEN "IllegalModel"
    ELSE IF getModelFile(files, getNamespace(type)) = Inherited THEN "TypeError"
    ELSE IF isLocalType(files[getNamespace(type)], type) THEN "none"
    ELSE "IllegalModel"

\* ModelFile.resolveType of a type that is no primitive, imported being what
\* isImportedType made of it
resolveDeclaredType(files, mf, type, imported) ==
    IF imported.thrown # "none" THEN imported.thrown
    ELSE IF ~imported.ret
         THEN (IF ~isLocalType(mf, type) THEN "IllegalModel" ELSE "none")
         ELSE managerResolveType(files, resolveImport(files, mf, type).ret)

\* ModelFile.resolveType(context, type): "none" or the exception thrown
resolveType(files, mf, type) ==
    IF isPrimitiveType(type) THEN "none"
    ELSE resolveDeclaredType(files, mf, type, isImportedType(files, mf, type))

\* the end of ModelFile.getType for an imported type of fully qualified name
\* fqn: the local type of the file registered for fqn's namespace, or Null
getImportedType(files, fqn) ==
    IF getModelFile(files, getNamespace(fqn)) = Null THEN Return(Null)
    ELSE IF getModelFile(files, getNamespace(fqn)) = Inherited THEN Throw("TypeError")
    ELSE Return(getLocalType(files[getNamespace(fqn)], fqn))

\* ModelFile.getType of a type that is no primitive, imported being what
\* isImportedType made of it
getDeclaredType(files, mf, type, imported) ==
    IF imported.thrown # "none" THEN imported
    ELSE IF ~imported.ret
         THEN (IF ~isLocalType(mf, type) THEN Return(Null) ELSE Return(getLocalType(mf, type)))
         ELSE getImportedType(files, resolveImport(files, mf, type).ret)

\* ModelFile.getType(type): a ClassDeclaration, the name of a primitive, or
\* Null, or the exception thrown
modelFileGetType(files, mf, type) ==
    IF isPrimitiveType(type) THEN Return([primitive |-> type])
    ELSE getDeclaredType(files, mf, type, isImportedType(files, mf, type))

\* ClassDeclaration.validate: the super type resolves to a declaration other
\* than this one, and the name is declared once in the file
classDeclarationValidate(files, mf, n) ==
    IF mf.declarations[n].superType # NoSuper
       /\ resolveType(files, mf, mf.declarations[n].superType) # "none"
    THEN resolveType(files, mf, mf.declarations[n].superType)
    ELSE IF mf.declarations[n].superType # NoSuper
            /\ modelFileGetType(files, mf, mf.declarations[n].superType)
                  = Return(mf.declarations[n])
    THEN "IllegalModel"
    ELSE IF \E k \in 1..Len(mf.declarations) :
                k # n /\ mf.declarations[k].name = mf.declarations[n].name
    THEN "IllegalModel"
    ELSE "none"

\* the check ModelFile.validate makes of one import
importValidate(files, imp) ==
    IF getModelFile(files, imp.namespace) = Null THEN "IllegalModel"
    ELSE IF imp.class = "ImportAll" THEN "none"
    ELSE IF getModelFile(files, imp.namespace) = Inherited THEN "TypeError"
    ELSE IF ~isLocalType(files[imp.namespace], imp.name) THEN "IllegalModel"
    ELSE "none"

\* the first exception of a sequence of outcomes, "none" when none threw
firstThrown(thrown) ==
    IF \E i \in 1..Len(thrown) : thrown[i] # "none"
    THEN thrown[CHOOSE i \in 1..Len(thrown) :
                    thrown[i] # "none" /\ \A j \in 1..(i-1) : thrown[j] = "none"]
    ELSE "none"

\* ModelFile.validate: "none" or the exception thrown
validate(files, mf) ==
    firstThrown([i \in 1..Len(mf.imports) |-> importValidate(files, mf.imports[i])]
                \o [n \in 1..Len(mf.declarations) |-> classDeclarationValidate(files, mf, n)])

----------------------------------------------------------------------------
(* BaseModelManager: each operation maps the registry and its arguments to   *)
(* the registry it leaves and the exception it throws ("none": it returns)   *)

\* this.modelFiles[ns] = mf
Put(files, ns, mf) == (ns :> mf) @@ files
\* delete this.modelFiles[ns]
Remove(files, ns)  == [k \in DOMAIN files \ {ns} |-> files[k]]
\* this.modelFiles = {}
EmptyFiles         == [k \in {} |-> Null]

\* what a call leaves of the registry and the exception it throws
Result(files, thrown) == [modelFiles |-> files, thrown |-> thrown]

\* BaseModelManager.validateModelFiles: "none", or the exception of a file
\* that fails (of the first one in the order of the keys)
validateModelFiles(files) ==
    IF \E ns \in DOMAIN files : validate(files, files[ns]) # "none"
    THEN validate(files, files[CHOOSE ns \in DOMAIN files : validate(files, files[ns]) # "none"])
    ELSE "none"

\* BaseModelManager._throwAlreadyExists: reading getName() off an inherited
\* function is a TypeError
throwAlreadyExists(files, mf) ==
    IF getModelFile(files, mf.namespace) = Inherited THEN "TypeError" ELSE "AlreadyDeclared"

\* an install that stores every file under the key 'concerto'
installAsRoot(files, mf, thrown) ==
    IF thrown # "none" THEN Result(files, thrown)
    ELSE Result(Put(files, ConcertoNs, mf), "none")

\* the end of addModelFile and updateModelFile: thrown is what
\* modelFile.validate() threw ("none" too when validation is disabled), and
\* the file is installed only when it threw nothing
install(files, mf, thrown) ==
    IF thrown # "none" THEN Result(files, thrown)
    ELSE Result(Put(files, mf.namespace, mf), "none")

\* addModelFile without the check that the namespace is free
addModelFileOverwriting(files, mf, disableValidation) ==
    install(files, mf, IF disableValidation THEN "none" ELSE validate(files, mf))

\* BaseModelManager.addModelFile(modelFile, cto, fileName, disableValidation)
addModelFile(files, mf, disableValidation) ==
    IF getModelFile(files, mf.namespace) = Null
    THEN install(files, mf, IF disableValidation THEN "none" ELSE validate(files, mf))
    ELSE Result(files, throwAlreadyExists(files, mf))

\* the end of addModel, m being the outcome of new ModelFile(...)
addConstructed(files, m, disableValidation) ==
    IF m.thrown # "none" THEN Result(files, m.thrown)
    ELSE addModelFile(files, m.mf, disableValidation)

\* BaseModelManager.addModel(modelInput, cto, fileName, disableValidation)
addModel(files, ast, disableValidation) ==
    addConstructed(files, NewModelFile(ast), disableValidation)

\* updateModelFile that installs the file before it validates it
updateModelFileInstallFirst(files, mf, disableValidation) ==
    IF getModelFile(files, mf.namespace) = Null THEN Result(files, "NotFound")
    ELSE Result(Put(files, mf.namespace, mf),
                IF disableValidation THEN "none" ELSE validate(files, mf))

\* BaseModelManager.updateModelFile(modelFile, fileName, disableValidation),
\* modelFile being a ModelFile object
updateModelFile(files, mf, disableValidation) ==
    IF getModelFile(files, mf.namespace) = Null THEN Result(files, "NotFound")
    ELSE install(files, mf, IF disableValidation THEN "none" ELSE validate(files, mf))

\* the end of updateModelFile of a string, m being the outcome of
\* new ModelFile(...)
updateConstructed(files, m, disableValidation) ==
    IF m.thrown # "none" THEN Result(files, m.thrown)
    ELSE updateModelFile(files, m.mf, disableValidation)

\* BaseModelManager.updateModelFile(modelFile, fileName, disableValidation),
\* modelFile being a string
updateModel(files, ast, disableValidation) ==
    updateConstructed(files, NewModelFile(ast), disableValidation)

\* deleteModelFile that resets the whole registry
deleteModelFileAll(files, namespace) ==
    IF getModelFile(files, namespace) = Null
    THEN Result(files, "DoesNotExist")
    ELSE Result(EmptyFiles, "none")

\* BaseModelManager.deleteModelFile(namespace)
deleteModelFile(files, namespace) ==
    IF getModelFile(files, namespace) = Null
    THEN Result(files, "DoesNotExist")
    ELSE Result(Remove(files, namespace), "none")

\* a step of addModelFiles that adds the file as addModelFile does, validating
\* it against the registry of that moment before installing it
addModelFilesStepValidating(files, m) ==
    IF m.thrown # "none" THEN Result(files, m.thrown)
    ELSE addModelFile(files, m.mf, FALSE)

\* one turn of the for loop of addModelFiles, m being the outcome of
\* new ModelFile(...)
addModelFilesStep(files, m) ==
    IF m.thrown # "none" THEN Result(files, m.thrown)
    ELSE IF getModelFile(files, m.mf.namespace) # Null
    THEN Result(files, throwAlreadyExists(files, m.mf))
    ELSE Result(Put(files, m.mf.namespace, m.mf), "none")

\* the for loop of addModelFiles from modelFiles[n] on, r being the registry
\* so far and the exception that ends the loop
RECURSIVE addModelFilesLoop(_, _, _)
addModelFilesLoop(r, asts, n) ==
    IF n > Len(asts) \/ r.thrown # "none" THEN r
    ELSE addModelFilesLoop(addModelFilesStep(r.modelFiles, NewModelFile(asts[n])), asts, n + 1)

\* the revalidation that ends a try block, unless the block has thrown or
\* validation is disabled
revalidate(r, disableValidation) ==
    IF r.thrown # "none" \/ disableValidation THEN r
    ELSE Result(r.modelFiles, validateModelFiles(r.modelFiles))

\* a catch block that rethrows without restoring the snapshot
restoreNothing(current, originalModelFiles) == current

\* the catch block of addModelFiles and updateExternalModels
restore(current, originalModelFiles) == originalModelFiles

\* a try block that ended as r, under the catch block
caught(r, originalModelFiles) ==
    IF r.thrown # "none"
    THEN Result(restore(r.modelFiles, originalModelFiles), r.thrown)
    ELSE r

\* BaseModelManager.addModelFiles(modelFiles, fileNames, disableValidation)
addModelFiles(files, asts, disableValidation) ==
    caught(revalidate(addModelFilesLoop(Result(files, "none"), asts, 1), disableValidation),
           files)

\* BaseModelManager.addRootModel
addRootModel(files) == addConstructed(files, NewModelFile(rootModelAst), FALSE)

\* clearModelFiles that does not empty the registry first
clearModelFilesKeeping(files) == addRootModel(files)

\* BaseModelManager.clearModelFiles
clearModelFiles(files) == addRootModel(EmptyFiles)

\* the forEach of fromAst from ast.models[n] on, r being the registry so far
\* and the exception that ends the loop
RECURSIVE fromAstLoop(_, _, _)
fromAstLoop(r, models, n) ==
    IF n > Len(models) \/ r.thrown # "none" THEN r
    ELSE fromAstLoop(addConstructed(r.modelFiles, NewModelFile(models[n]), TRUE), models, n + 1)

\* a fromAst that restores the registry of before the call when it throws
fromAstRestoring(files, models) ==
    caught(revalidate(fromAstLoop(clearModelFiles(files), models, 1), FALSE), files)

\* BaseModelManager.fromAst(ast)
fromAst(files, models) ==
    revalidate(fromAstLoop(clearModelFiles(files), models, 1), FALSE)

\* the end of BaseModelManager.getType, classDecl being the outcome of
\* modelFile.getType
foundType(classDecl) ==
    IF classDecl.thrown = "none" /\ classDecl.ret = Null THEN Throw("TypeNotFound")
    ELSE classDecl

\* BaseModelManager.getType(qualifiedName): the declaration returned or the
\* exception thrown; calling getType of an inherited function is a TypeError
getType(files, qualifiedName) ==
    IF getModelFile(files, getNamespace(qualifiedName)) = Null THEN Throw("TypeNotFound")
    ELSE IF getModelFile(files, getNamespace(qualifiedName)) = Inherited THEN Throw("TypeError")
    ELSE foundType(modelFileGetType(files, files[getNamespace(qualifiedName)], qualifiedName))

\* BaseModelManager.getNamespaces
getNamespaces(files) == DOMAIN files

\* getModelFiles that leaves the concerto namespace out whatever it is asked
getModelFilesWithoutConcerto(files, includeConcertoNamespace) ==
    { files[ns] : ns \in DOMAIN files \ {ConcertoNs} }

\* BaseModelManager.getModelFiles(includeConcertoNamespace)
getModelFiles(files, includeConcertoNamespace) ==
    { files[ns] : ns \in { k \in DOMAIN files : includeConcertoNamespace \/ k # ConcertoNs } }

\* one turn of the forEach of updateExternalModels, mf being the outcome of
\* new ModelFile(...)
externalStep(files, mf) ==
    IF mf.thrown # "none" THEN Result(files, mf.thrown)
    ELSE IF getModelFile(files, mf.mf.namespace) # Null
    THEN updateModelFile(files, mf.mf, TRUE)
    ELSE addModelFile(files, mf.mf, TRUE)

\* the forEach of updateExternalModels from externalModels[n] on, r being the
\* registry so far and the exception that ends the loop
RECURSIVE externalLoop(_, _, _)
externalLoop(r, externalModels, n) ==
    IF n > Len(externalModels) \/ r.thrown # "none" THEN r
    ELSE externalLoop(externalStep(r.modelFiles, NewModelFile(externalModels[n])),
                      externalModels, n + 1)

\* a snapshot that is the registry of the moment updateExternalModels was
\* called, before the download
snapshotAtCall(atCall, atResolve) == atCall

\* originalModelFiles of updateExternalModels: the copy is made after the
\* await, of the registry of the moment the download resolved
snapshot(atCall, atResolve) == atResolve

\* updateExternalModels from the point where the download has resolved with
\* externalModels, files being the registry then and originalModelFiles the
\* snapshot its catch block restores
resumeExternalModels(files, externalModels, originalModelFiles) ==
    caught(revalidate(externalLoop(Result(files, "none"), externalModels, 1), FALSE),
           originalModelFiles)

\* updateExternalModels without its catch block
applyExternalModelsUncaught(files, externalModels) ==
    revalidate(externalLoop(Result(files, "none"), externalModels, 1), FALSE)

\* BaseModelManager.updateExternalModels, from the point where the download
\* has resolved with externalModels
applyExternalModels(files, externalModels) ==
    caught(revalidate(externalLoop(Result(files, "none"), externalModels, 1), FALSE), files)

\* ClassDeclaration.getFullyQualifiedName
getFullyQualifiedName(decl) == decl.namespace \o Dot \o decl.name

\* ClassDeclaration.getSuperTypeDeclaration: null for a declaration with no
\* super type, else the declaration its super type resolves to in its file,
\* and an exception when it resolves to none
getSuperTypeDeclaration(files, decl) ==
    IF decl.superType = NoSuper THEN Return(Null)
    ELSE IF modelFileGetType(files, files[decl.namespace], decl.superType) = Return(Null)
    THEN Throw("IllegalModel")
    ELSE modelFileGetType(files, files[decl.namespace], decl.superType)

\* the while loop of derivesFrom from the point where typeDeclaration has
\* been assigned (found is that assignment's outcome), visited being the
\* declarations of the earlier turns. The loop reads nothing but
\* typeDeclaration and the registry, which it does not change: once it is
\* back at a declaration of an earlier turn it repeats those turns for ever
\* ("NeverReturns")
RECURSIVE derivesFromLoop(_, _, _, _)
derivesFromLoop(files, found, fqt2, visited) ==
    IF found.thrown # "none" THEN found
    ELSE IF found.ret = Null THEN Return(FALSE)
    ELSE IF "primitive" \in DOMAIN found.ret THEN Throw("TypeError")
    ELSE IF getFullyQualifiedName(found.ret) = fqt2 THEN Return(TRUE)
    ELSE IF found.ret \in visited THEN Throw("NeverReturns")
    ELSE derivesFromLoop(files, getSuperTypeDeclaration(files, found.ret), fqt2,
                         visited \cup {found.ret})

\* BaseModelManager.derivesFrom(fqt1, fqt2)
derivesFrom(files, fqt1, fqt2) ==
    derivesFromLoop(files, getType(files, fqt1), fqt2, {})

\* the end of ModelFile.getFullyQualifiedTypeName for an imported type of
\* fully qualified name fqn: reading getLocalType off no file, or
\* getFullyQualifiedName off null, is a TypeError
getImportedTypeName(files, fqn) ==
    IF getModelFile(files, getNamespace(fqn)) = Null THEN Throw("TypeError")
    ELSE IF getModelFile(files, getNamespace(fqn)) = Inherited THEN Throw("TypeError")
    ELSE IF getLocalType(files[getNamespace(fqn)], fqn) = Null THEN Throw("TypeError")
    ELSE Return(getFullyQualifiedName(getLocalType(files[getNamespace(fqn)], fqn)))

\* ModelFile.getFullyQualifiedTypeName of a type that is no primitive,
\* imported being what isImportedType made of it
getDeclaredTypeName(files, mf, type, imported) ==
    IF imported.thrown # "none" THEN imported
    ELSE IF ~imported.ret
         THEN (IF ~isLocalType(mf, type) THEN Return(Null)
               ELSE Return(getFullyQualifiedName(getLocalType(mf, type))))
         ELSE getImportedTypeName(files, resolveImport(files, mf, type).ret)

\* ModelFile.getFullyQualifiedTypeName(type): the name, Null, or the
\* exception thrown
getFullyQualifiedTypeName(files, mf, type) ==
    IF isPrimitiveType(type) THEN Return(type)
    ELSE getDeclaredTypeName(files, mf, type, isImportedType(files, mf, type))

\* ModelFile.getImports(): the fully qualified names of this.imports
getImports(mf) ==
    [i \in 1..Len(mf.imports) |-> importFullyQualifiedName(mf.imports[i])]

\* BaseModelManager.getAst(): the arrays result.models can be, one for each
\* order Object.keys can list the namespaces in (the order they were first
\* inserted in, which the registry above does not keep)
getAst(files) ==
    LET asts == { mf.ast : mf \in getModelFiles(files, FALSE) }
    IN { models \in [1..Cardinality(asts) -> asts] :
            { models[n] : n \in 1..Cardinality(asts) } = asts }


----------------------------------------------------------------------------
(* CSharpVisitor *)

\* the fileWriter has no file open
NoFile == <<>>

\* the name of the file visitModelFile opens: the namespace and '.cs'
csFileName(mf) == mf.namespace \o <<".", "c", "s">>

\* FileWriter.openFile(fileName)
openFile(fileName) == [fileName |-> fileName, lines |-> 0]

\* FileWriter.writeLine, count times
writeLine(writer, count) == [writer EXCEPT !.lines = @ + count]

\* FileWriter.closeFile()
closeFile(writer) == [writer EXCEPT !.fileName = NoFile]

\* a call made on the fileWriter: openFile with its file name, writeLine, closeFile
Called(call, fileName) == [call |-> call, fileName |-> fileName]

\* count calls of writeLine
writeLines(count) == [i \in 1..count |-> Called("writeLine", NoFile)]

\* the namespaces visitModelFile writes a using line for: those of
\* getImports(), without the file's own and without repetitions
usings(mf) ==
    LET namespaces == [i \in 1..Len(getImports(mf)) |-> getNamespace(getImports(mf)[i])]
        kept == SelectSeq([i \in 1..Len(namespaces) |-> i],
                          LAMBDA i : /\ namespaces[i] # mf.namespace
                                     /\ \A j \in 1..(i - 1) : namespaces[j] # namespaces[i])
    IN [k \in 1..Len(kept) |-> namespaces[kept[k]]]

\* the lines visitEnumDeclaration / visitClassDeclaration write for a
\* declaration without properties
declarationLines(decl) == IF decl.class = "EnumDeclaration" THEN 2 ELSE 3

\* what is left of visitModelFile after the step at pc, index n
nextStep(mf, pc, n) ==
    CASE pc = "header" /\ n < 3 -> [pc |-> "header", n |-> n + 1]
      [] pc = "header" /\ n = 3 /\ Len(usings(mf)) > 0 -> [pc |-> "usings", n |-> 1]
      [] pc = "header" /\ n = 3 /\ Len(usings(mf)) = 0 /\ Len(mf.declarations) > 0 -> [pc |-> "declarations", n |-> 1]
      [] pc = "header" /\ n = 3 /\ Len(usings(mf)) = 0 /\ Len(mf.declarations) = 0 -> [pc |-> "footer", n |-> 1]
      [] pc = "usings" /\ n < Len(usings(mf)) -> [pc |-> "usings", n |-> n + 1]
      [] pc = "usings" /\ n = Len(usings(mf)) /\ Len(mf.declarations) > 0 -> [pc |-> "declarations", n |-> 1]
      [] pc = "usings" /\ n = Len(usings(mf)) /\ Len(mf.declarations) = 0 -> [pc |-> "footer", n |-> 1]
      [] pc = "declarations" /\ n < Len(mf.declarations) -> [pc |-> "declarations", n |-> n + 1]
      [] pc = "declarations" /\ n = Len(mf.declarations) -> [pc |-> "footer", n |-> 1]
      [] pc = "footer" -> [pc |-> "closeFile", n |-> 1]

----------------------------------------------------------------------------
(* Typed instances and the Serializer *)

\* what a property that is not set reads as
Undefined == [undefined |-> TRUE]

\* an object without keys
NoOptions == [key \in {} |-> TRUE]

\* the values of the properties of instances and of JSON objects
Str(s) == [string |-> s]
Num(n) == [number |-> n]
DateTime(t) == [dateTime |-> t]
Relationship(type, id) == [relationship |-> type, identifier |-> id]

\* a property of a class declaration: a field, or a relationship
Property(name, type, relationship, optional, array) ==
    [name |-> name, type |-> type, relationship |-> relationship,
     optional |-> optional, array |-> array]

\* a class declaration with its properties; identifier is the name of the
\* identifying field, "" for a concept
TypeDeclaration(fqn, kind, identifier, abstract, superType, properties) ==
    [fqn |-> fqn, kind |-> kind, identifier |-> identifier, abstract |-> abstract,
     superType |-> superType, properties |-> properties]

\* modelManager.getType(fqn), of a type that is declared
getTypeDeclaration(types, fqn) == CHOOSE decl \in types : decl.fqn = fqn

isIdentifiable(decl) == decl.identifier # ""

hasTimestamp(decl) == decl.kind \in {"transaction", "event"}

\* Field.isPrimitive
isPrimitive(property) == property.type \in {"String", "Double", "DateTime"}

\* the properties the root declarations give: $identifier to the identified
\* kinds, $timestamp to transactions and events
systemProperties(decl) ==
    (IF isIdentifiable(decl)
     THEN << Property("$identifier", "String", FALSE, FALSE, FALSE) >> ELSE <<>>) \o
    (IF hasTimestamp(decl)
     THEN << Property("$timestamp", "DateTime", FALSE, FALSE, FALSE) >> ELSE <<>>)

\* the own and inherited properties of a declaration, in declaration order
getProperties(decl) == systemProperties(decl) \o decl.properties

propertyNames(decl) == { getProperties(decl)[i].name : i \in 1..Len(getProperties(decl)) }

getProperty(decl, name) ==
    getProperties(decl)[CHOOSE i \in 1..Len(getProperties(decl)) : getProperties(decl)[i].name = name]

\* the time the factory stamps a new transaction or event with
Now == 1

\* Factory.newResource / newConcept: an instance of decl with the values given
newResource(decl, id, values) ==
    [class  |-> decl.fqn,
     values |-> values
                @@ (IF isIdentifiable(decl)
                    THEN (decl.identifier :> Str(id)) @@ ("$identifier" :> Str(id)) ELSE NoOptions)
                @@ (IF hasTimestamp(decl) THEN "$timestamp" :> DateTime(Now) ELSE NoOptions)]

\* how an error names the instance: <FQN>#<identifier>, <FQN> for a concept
instanceName(decl, values) ==
    IF "$identifier" \in DOMAIN values
    THEN << decl.fqn, "#", values["$identifier"].string >> ELSE << decl.fqn >>

NoError == [error |-> "none"]

\* a model violation: what names the instance, the field, and what is wrong
Violation(instance, field, what) ==
    [error |-> "ModelViolation", instance |-> instance, field |-> field, what |-> what]

Failed(error) == [thrown |-> error, ret |-> Undefined]

Succeeded(ret) == [thrown |-> NoError, ret |-> ret]

\* the indexes of the properties of decl that values fails on: a required
\* one that is missing, or a nested instance that is invalid
RECURSIVE validateResource(_, _)
violations(types, decl, values) ==
    { i \in 1..Len(getProperties(decl)) :
        IF getProperties(decl)[i].name \notin DOMAIN values
        THEN ~getProperties(decl)[i].optional
        ELSE /\ "class" \in DOMAIN values[getProperties(decl)[i].name]
             /\ validateResource(types, values[getProperties(decl)[i].name]) # NoError }

\* the error of the property of index i
violationAt(types, decl, values, i) ==
    IF getProperties(decl)[i].name \notin DOMAIN values
    THEN Violation(instanceName(decl, values), getProperties(decl)[i].name, "missing")
    ELSE validateResource(types, values[getProperties(decl)[i].name])

\* the validation of an instance against its declaration: the first error,
\* an unexpected property before the properties of the declaration
validateDeclared(types, decl, values) ==
    IF DOMAIN values \ propertyNames(decl) # {}
    THEN Violation(instanceName(decl, values),
                   CHOOSE name \in DOMAIN values \ propertyNames(decl) : TRUE, "unexpected")
    ELSE IF violations(types, decl, values) = {} THEN NoError
    ELSE violationAt(types, decl, values,
                     CHOOSE i \in violations(types, decl, values) :
                         \A j \in violations(types, decl, values) : i <= j)

validateResource(types, resource) ==
    validateDeclared(types, getTypeDeclaration(types, resource.class), resource.values)

\* encodeURIComponent, of the characters identifiers are made of here
encodeChar(c) ==
    CASE c = "#" -> << "%", "2", "3" >>
      [] c = "%" -> << "%", "2", "5" >>
      [] c = "@" -> << "%", "4", "0" >>
      [] OTHER   -> << c >>

RECURSIVE encodeURIComponent(_)
encodeURIComponent(s) ==
    IF s = <<>> THEN <<>> ELSE encodeChar(Head(s)) \o encodeURIComponent(Tail(s))

escapes == { << "%", "2", "3" >>, << "%", "2", "5" >>, << "%", "4", "0" >> }

decodeEscape(e) ==
    CASE e = << "%", "2", "3" >> -> "#"
      [] e = << "%", "2", "5" >> -> "%"
      [] e = << "%", "4", "0" >> -> "@"

RECURSIVE decodeURIComponent(_)
decodeURIComponent(s) ==
    IF s = <<>> THEN <<>>
    ELSE IF Len(s) >= 3 /\ SubSeq(s, 1, 3) \in escapes
    THEN << decodeEscape(SubSeq(s, 1, 3)) >> \o decodeURIComponent(SubSeq(s, 4, Len(s)))
    ELSE << Head(s) >> \o decodeURIComponent(Tail(s))

\* Relationship.toURI with the identifier written as it is
toURIUnencoded(relationship) ==
    << "resource:", relationship.relationship, "#" >> \o relationship.identifier

\* Relationship.toURI: resource:<FQN>#<identifier, URI-component-encoded>
toURI(relationship) ==
    << "resource:", relationship.relationship, "#" >> \o encodeURIComponent(relationship.identifier)

\* Relationship.fromURI, of a URI of that form
fromURI(uri) == Relationship(uri[2], decodeURIComponent(SubSeq(uri, 4, Len(uri))))

\* a DateTime as an ISO-8601 string, and back
toISOString(t) == << "ISO-8601", t >>

fromISOString(s) == s[2]

\* the JSON of an instance: $class and every declared property that is set
RECURSIVE generateJSON(_, _)
jsonOf(types, value) ==
    IF "relationship" \in DOMAIN value THEN Str(toURI(value))
    ELSE IF "class" \in DOMAIN value THEN generateJSON(types, value)
    ELSE IF "dateTime" \in DOMAIN value THEN Str(toISOString(value.dateTime))
    ELSE value

generateJSON(types, resource) ==
    ("$class" :> Str(resource.class))
    @@ [name \in DOMAIN resource.values \cap propertyNames(getTypeDeclaration(types, resource.class))
            |-> jsonOf(types, resource.values[name])]

\* the instance of a JSON object whose keys are $class and declared
\* properties: the factory's instance with the values read from the JSON
RECURSIVE populate(_, _)
valueOfJSON(types, property, json) ==
    IF property.relationship THEN fromURI(json.string)
    ELSE IF property.type = "DateTime" THEN DateTime(fromISOString(json.string))
    ELSE IF isPrimitive(property) THEN json
    ELSE populate(types, json)

populated(types, decl, json) ==
    [class  |-> decl.fqn,
     values |-> [name \in DOMAIN json \ {"$class"} |-> valueOfJSON(types, getProperty(decl, name), json[name])]
                @@ (IF isIdentifiable(decl) /\ decl.identifier \in DOMAIN json
                    THEN "$identifier" :> json[decl.identifier] ELSE NoOptions)
                @@ (IF hasTimestamp(decl) THEN "$timestamp" :> DateTime(Now) ELSE NoOptions)]

populate(types, json) == populated(types, getTypeDeclaration(types, json["$class"].string), json)

\* the options a Serializer starts with
baseDefaultOptions == [validate |-> TRUE]

\* Serializer.setDefaultOptions(newDefaultOptions)
setDefaultOptions(newDefaultOptions) == newDefaultOptions @@ baseDefaultOptions

\* the options of a call in which a per-call false does not override a
\* default true
effectiveOptionsOr(defaults, options) ==
    [validate |-> (options @@ defaults).validate \/ defaults.validate]

\* the options of a call: the keys given override the defaults
effectiveOptions(defaults, options) == options @@ defaults

\* the end of toJSON, error being what the validation said
generated(types, resource, validateFlag, error) ==
    IF validateFlag /\ error # NoError THEN Failed(error)
    ELSE Succeeded(generateJSON(types, resource))

\* Serializer.toJSON(resource, options)
toJSON(types, defaults, resource, options) ==
    generated(types, resource, effectiveOptions(defaults, options).validate,
              validateResource(types, resource))

\* the end of fromJSON, resource being the instance populated
deserialized(types, resource, validateFlag) ==
    IF validateFlag /\ validateResource(types, resource) # NoError
    THEN Failed(validateResource(types, resource))
    ELSE Succeeded(resource)

\* fromJSON of an object whose $class is decl
fromJSONOf(types, decl, json, validateFlag) ==
    IF (DOMAIN json \ {"$class"}) \ propertyNames(decl) # {}
    THEN Failed(Violation(<< decl.fqn >>,
                          CHOOSE name \in (DOMAIN json \ {"$class"}) \ propertyNames(decl) : TRUE,
                          "unexpected"))
    ELSE deserialized(types, populate(types, json), validateFlag)

\* Serializer.fromJSON(jsonObject, options)
fromJSON(types, defaults, json, options) ==
    IF "$class" \notin DOMAIN json THEN Failed([error |-> "NoClass"])
    ELSE fromJSONOf(types, getTypeDeclaration(types, json["$class"].string), json,
                    effectiveOptions(defaults, options).validate)

\* a call of the Serializer or the InstanceGenerator and its outcome
Outcome(op, options, input, thrown, ret) ==
    [op |-> op, options |-> options, input |-> input, thrown |-> thrown, ret |-> ret]

----------------------------------------------------------------------------
(* InstanceGenerator *)

\* an array value
Arr(elements) == [array |-> elements]

ModelIsRecursive == [error |-> "ModelIsRecursive"]

NoConcreteSubclass == [error |-> "NoConcreteSubclass"]

\* decl is fqn or extends it, directly or not
RECURSIVE isAssignableTo(_, _, _)
isAssignableTo(types, decl, fqn) ==
    \/ decl.fqn = fqn
    \/ /\ decl.superType # ""
       /\ isAssignableTo(types, getTypeDeclaration(types, decl.superType), fqn)

\* the concrete-subclass picker: the declaration itself when it is not
\* abstract, else the first of its non-abstract descendants (the models here
\* have one at most), else the failure
findConcreteSubclass(types, decl) ==
    IF ~decl.abstract THEN Succeeded(decl)
    ELSE IF \E sub \in types : ~sub.abstract /\ isAssignableTo(types, sub, decl.fqn)
    THEN Succeeded(CHOOSE sub \in types : ~sub.abstract /\ isAssignableTo(types, sub, decl.fqn))
    ELSE Failed(NoConcreteSubclass)

\* the value generator's value of a primitive
primitiveValue(field, parameters) ==
    IF field.array
    THEN (IF parameters.strategy = "empty" THEN Arr(<<>>) ELSE Arr(<< Str(parameters.strategy) >>))
    ELSE Str(parameters.strategy)

\* the value of a relationship: a synthetic identifier
relationshipValue(field) == Relationship(field.type, << "0", "0", "0", "1" >>)

\* an object field whose concrete type is on the stack always fails
recursionOutcomeStrict(field) == Failed(ModelIsRecursive)

\* what an object field whose concrete type is on the stack becomes
recursionOutcome(field) ==
    IF field.array THEN Succeeded(Arr(<<>>))
    ELSE IF field.optional THEN Succeeded(Null)
    ELSE Failed(ModelIsRecursive)

\* the one element of a sample array, element being the outcome of generating it
oneElement(element) ==
    IF element.thrown # NoError THEN element ELSE Succeeded(Arr(<< element.ret >>))

RECURSIVE visitClassDeclaration(_, _, _, _)
RECURSIVE visitField(_, _, _, _)

\* the visit of an object field, concrete being what the picker made of its type
visitObjectField(types, field, concrete, seen, parameters) ==
    IF concrete.thrown # NoError THEN concrete
    ELSE IF \E i \in 1..Len(seen) : seen[i] = concrete.ret.fqn THEN recursionOutcome(field)
    ELSE IF ~field.array
    THEN visitClassDeclaration(types, concrete.ret, Append(seen, concrete.ret.fqn), parameters)
    ELSE IF parameters.strategy = "empty" THEN Succeeded(Arr(<<>>))
    ELSE oneElement(visitClassDeclaration(types, concrete.ret, Append(seen, concrete.ret.fqn), parameters))

\* InstanceGenerator.visitField / visitRelationship: the value, or the failure
visitField(types, field, seen, parameters) ==
    IF field.relationship THEN Succeeded(relationshipValue(field))
    ELSE IF isPrimitive(field) THEN Succeeded(primitiveValue(field, parameters))
    ELSE visitObjectField(types, field, findConcreteSubclass(types, getTypeDeclaration(types, field.type)),
                          seen, parameters)

\* the values r with the property set to what its visit returned
assigned(r, name, value) ==
    IF value.thrown # NoError THEN value ELSE Succeeded((name :> value.ret) @@ r.ret)

\* a seen set that keeps the concrete type of a visited object field after
\* the visit of the field has ended
seenAfterFieldKept(types, seen, field) ==
    IF field.relationship \/ isPrimitive(field) THEN seen
    ELSE IF findConcreteSubclass(types, getTypeDeclaration(types, field.type)).thrown # NoError
    THEN seen
    ELSE IF \E i \in 1..Len(seen) :
               seen[i] = findConcreteSubclass(types, getTypeDeclaration(types, field.type)).ret.fqn
    THEN seen
    ELSE Append(seen, findConcreteSubclass(types, getTypeDeclaration(types, field.type)).ret.fqn)

\* the seen set when the visit of field has ended: what the visit pushed is
\* popped, and the set is what it was before the visit
seenAfterField(types, seen, field) == seen

\* the properties of decl from the n-th on, r being the values so far or the
\* failure that ended the visit; optional ones only with includeOptionalFields
RECURSIVE visitProperties(_, _, _, _, _, _)
visitProperties(types, decl, seen, parameters, n, r) ==
    IF r.thrown # NoError THEN r
    ELSE IF n > Len(decl.properties) THEN Succeeded([class |-> decl.fqn, values |-> r.ret])
    ELSE IF decl.properties[n].optional /\ ~parameters.includeOptionalFields
    THEN visitProperties(types, decl, seen, parameters, n + 1, r)
    ELSE visitProperties(types, decl, seenAfterField(types, seen, decl.properties[n]),
                         parameters, n + 1,
                         assigned(r, decl.properties[n].name,
                                  visitField(types, decl.properties[n], seen, parameters)))

\* InstanceGenerator.visitClassDeclaration: the instance, or the failure
visitClassDeclaration(types, decl, seen, parameters) ==
    visitProperties(types, decl, seen, parameters, 1, Succeeded(NoOptions))

\* the generation of an instance of fqn: the stack starts with its type
generate(types, fqn, parameters) ==
    visitClassDeclaration(types, getTypeDeclaration(types, fqn), << fqn >>, parameters)

----------------------------------------------------------------------------
(* StringValidator. The regular expressions are those of the form            *)
(* ^?[class]+$? : an optional start anchor, one or more characters of a      *)
(* class, an optional end anchor; flags is the string of the flags           *)

Pattern(start, class, end) == [start |-> start, class |-> class, end |-> end]

\* the flag f is one of flags
hasFlag(flags, f) == \E i \in 1..Len(flags) : flags[i] = f

\* new RegExp throws a SyntaxError for an unknown or a repeated flag
validFlags(flags) ==
    /\ \A i \in 1..Len(flags) : flags[i] \in {"g", "i", "m", "s", "u", "y"}
    /\ \A i, j \in 1..Len(flags) : flags[i] = flags[j] => i = j

\* new RegExp(pattern, flags): lastIndex starts at 0
RegExp(pattern, flags) == [pattern |-> pattern, flags |-> flags, lastIndex |-> 0]

\* new StringValidator(field, validator): the regex it holds, or the
\* exception reportError throws when RegExp rejects the validator
StringValidator(validator) ==
    IF validFlags(validator.flags)
    THEN [regex |-> RegExp(validator.pattern, validator.flags), thrown |-> "none"]
    ELSE [regex |-> Undefined, thrown |-> "IllegalModel"]

\* String.prototype.toLowerCase on one character
toLowerCase(c) == IF c = "A" THEN "a" ELSE IF c = "B" THEN "b" ELSE c

\* c is a character of the class of regex, case folded under the flag i
inClass(re, c) ==
    IF hasFlag(re.flags, "i")
    THEN toLowerCase(c) \in { toLowerCase(d) : d \in re.pattern.class }
    ELSE c \in re.pattern.class

\* the number of characters of the class that value has from index on
\* (indexes count from 0 as in JavaScript)
runLength(re, value, index) ==
    CHOOSE k \in 0..(Len(value) - index) :
        /\ \A j \in 1..k : inClass(re, value[index + j])
        /\ k = Len(value) - index \/ ~inClass(re, value[index + k + 1])

\* the index where the match of regex that begins at index ends, -1 when
\* there is no match at index
matchEnd(re, value, index) ==
    IF re.pattern.start /\ index # 0 THEN -1
    ELSE IF runLength(re, value, index) = 0 THEN -1
    ELSE IF re.pattern.end /\ index + runLength(re, value, index) # Len(value) THEN -1
    ELSE index + runLength(re, value, index)

\* the regex keeps its position between calls under the flags g and y
keepsLastIndex(re) == hasFlag(re.flags, "g") \/ hasFlag(re.flags, "y")

\* RegExpBuiltinExec from index on: whether a match is found and the
\* lastIndex the regex is left with
RECURSIVE execFrom(_, _, _)
execFrom(re, value, index) ==
    IF index > Len(value)
    THEN [matched |-> FALSE, lastIndex |-> IF keepsLastIndex(re) THEN 0 ELSE re.lastIndex]
    ELSE IF matchEnd(re, value, index) # -1
    THEN [matched |-> TRUE,
          lastIndex |-> IF keepsLastIndex(re) THEN matchEnd(re, value, index)
                        ELSE re.lastIndex]
    ELSE IF hasFlag(re.flags, "y")
    THEN [matched |-> FALSE, lastIndex |-> 0]
    ELSE execFrom(re, value, index + 1)

\* RegExp.prototype.test(value): the search begins at lastIndex under the
\* flags g and y, at 0 otherwise
test(re, value) ==
    execFrom(re, value, IF keepsLastIndex(re) THEN re.lastIndex ELSE 0)

\* the end of validate for a value that is not null, tested being the
\* outcome of this.regex.test(value)
reported(re, tested) ==
    [regex |-> [re EXCEPT !.lastIndex = tested.lastIndex],
     thrown |-> IF tested.matched THEN "none" ELSE "IllegalModel"]

\* StringValidator.validate(identifier, value): the regex it leaves and the
\* exception it throws
stringValidate(re, value) ==
    IF value = Null THEN [regex |-> re, thrown |-> "none"]
    ELSE reported(re, test(re, value.string))

----------------------------------------------------------------------------
(* Inputs *)

nsA  == <<"a">>
nsB  == <<"b">>
nsAA == <<"a", ".", "a">>
valueOf == <<"v","a","l","u","e","O","f">>

T  == <<"T">>
U  == <<"U">>
V  == <<"V">>
aT == <<"a", "T">>

\* namespace a { concept T  concept aT }
AstA1 == Model(nsA, <<>>,
               << Decl("ConceptDeclaration", T, NoSuper),
                  Decl("ConceptDeclaration", aT, NoSuper) >>, "a1.cto")
\* namespace a  import a.*  { concept T }
AstA2 == Model(nsA, << ImportAll(nsA) >>,
               << Decl("ConceptDeclaration", T, NoSuper) >>, "a2.cto")
\* namespace b  import a.T  { concept V extends T  asset U }
AstB1 == Model(nsB, << ImportType(nsA, T) >>,
               << Decl("ConceptDeclaration", V, T),
                  Decl("AssetDeclaration", U, NoSuper) >>, "b1.cto")
\* namespace a.a { concept T }
AstAA == Model(nsAA, <<>>, << Decl("ConceptDeclaration", T, NoSuper) >>, "aa.cto")
\* a caller's model of namespace concerto
AstC  == Model(ConcertoNs, <<>>, <<>>, "user.cto")
\* namespace valueOf { concept T }
AstV  == Model(valueOf, <<>>, << Decl("ConceptDeclaration", T, NoSuper) >>, "v.cto")
\* a model with a declaration of no known $class: its ModelFile cannot be built
AstBad == Model(nsB, <<>>, << Decl("Unknown", T, NoSuper) >>, "bad.cto")

\* the models handed over one at a time
Asts == { AstA1, AstA2, AstB1, AstAA, AstC, AstV }

\* the models handed over in arrays
BatchAsts == { AstA1, AstB1, AstBad }

Batches == UNION { [1..n -> BatchAsts] : n \in 0..MaxBatch }

Namespaces == { ConcertoNs, nsA, nsB, nsAA, valueOf }

QualifiedNames ==
    { nsA \o Dot \o T, nsA \o Dot \o aT, nsA \o Dot \o U,
      valueOf \o Dot \o T, <<"S","t","r","i","n","g">>, T }

nsC == <<"c">>
P   == <<"P">>
Q   == <<"Q">>

\* namespace c { concept P extends Q  concept Q extends P }
AstCycle == Model(nsC, <<>>,
                  << Decl("ConceptDeclaration", P, Q),
                     Decl("ConceptDeclaration", Q, P) >>, "cycle.cto")

\* the models registered before derivesFrom is asked
DerivesAsts == { AstA1, AstB1, AstCycle }

\* the fully qualified names derivesFrom is asked about
DerivesNames ==
    { nsA \o Dot \o T, nsB \o Dot \o V, nsB \o Dot \o U, ConcertoNs \o Dot \o Asset,
      nsC \o Dot \o P, nsC \o Dot \o Q }

\* namespace b  import a.T  { concept T  concept Event }
AstB3 == Model(nsB, << ImportType(nsA, T) >>,
               << Decl("ConceptDeclaration", T, NoSuper),
                  Decl("ConceptDeclaration", Event, NoSuper) >>, "b3.cto")

\* namespace b  import a.Event  import a.*  { asset U }
AstB4 == Model(nsB, << ImportType(nsA, Event), ImportAll(nsA) >>,
               << Decl("AssetDeclaration", U, NoSuper) >>, "b4.cto")

\* the models whose short names are resolved
ResolveAsts == { AstA1, AstA2, AstB1, AstB3, AstB4, AstAA }

\* the models of the managers whose AST is taken and read back
RoundTripAsts == { AstA1, AstB1, AstV }

\* namespace a  { enum T }
AstEnum == Model(nsA, <<>>, << Decl("EnumDeclaration", T, NoSuper) >>, "enum.cto")

\* the models code is generated for
VisitedAsts == { rootModelAst, AstA1, AstA2, AstB1, AstB3, AstB4, AstCycle, AstEnum }

\* namespace org.acme.sample
\*   asset SampleAsset identified by assetId
\*       { o String assetId  --> SampleParticipant owner  o String stringValue  o Double doubleValue }
\*   participant SampleParticipant identified by participantId
\*       { o String participantId  o Address address optional }
\*   transaction SampleTransaction identified by transactionId
\*       { o String transactionId  --> SampleAsset asset  o String newValue }
\*   concept Address { o String city }
SampleAsset ==
    TypeDeclaration("org.acme.sample.SampleAsset", "asset", "assetId", FALSE, "",
        << Property("assetId", "String", FALSE, FALSE, FALSE),
           Property("owner", "org.acme.sample.SampleParticipant", TRUE, FALSE, FALSE),
           Property("stringValue", "String", FALSE, FALSE, FALSE),
           Property("doubleValue", "Double", FALSE, FALSE, FALSE) >>)

SampleParticipant ==
    TypeDeclaration("org.acme.sample.SampleParticipant", "participant", "participantId", FALSE, "",
        << Property("participantId", "String", FALSE, FALSE, FALSE),
           Property("address", "org.acme.sample.Address", FALSE, TRUE, FALSE) >>)

SampleTransaction ==
    TypeDeclaration("org.acme.sample.SampleTransaction", "transaction", "transactionId", FALSE, "",
        << Property("transactionId", "String", FALSE, FALSE, FALSE),
           Property("asset", "org.acme.sample.SampleAsset", TRUE, FALSE, FALSE),
           Property("newValue", "String", FALSE, FALSE, FALSE) >>)

Address ==
    TypeDeclaration("org.acme.sample.Address", "concept", "", FALSE, "",
        << Property("city", "String", FALSE, FALSE, FALSE) >>)

SampleTypes == { SampleAsset, SampleParticipant, SampleTransaction, Address }

\* identifiers, some with characters that a URI escapes
Identifiers == { << "1" >>, << "a", "#" >>, << "%", "2", "3" >> }

\* the object of the properties of f that are set
Set(f) == [name \in { n \in DOMAIN f : f[n] # Undefined } |-> f[name]]

Addresses ==
    { newResource(Address, <<>>, Set([city |-> city])) : city \in { Undefined, Str("Winchester") } }

Owners ==
    { Undefined } \cup { Relationship("org.acme.sample.SampleParticipant", id) : id \in Identifiers }

\* the instances handed to toJSON: every property set or not
Instances ==
    { newResource(SampleAsset, << "1" >>,
                  Set([owner |-> owner, stringValue |-> stringValue, doubleValue |-> doubleValue])) :
          owner \in Owners, stringValue \in { Undefined, Str(""), Str("the value") },
          doubleValue \in { Undefined, Num(314) } }
    \cup { newResource(SampleParticipant, id, Set([address |-> address])) :
               id \in Identifiers, address \in { Undefined } \cup Addresses }
    \cup { [class  |-> SampleTransaction.fqn,
            values |-> Set([asset |-> asset, newValue |-> Str("the value")])
                       @@ newResource(SampleTransaction, << "1" >>, NoOptions).values
                       @@ ("$timestamp" :> DateTime(0))] :
               asset \in { Undefined, Relationship("org.acme.sample.SampleAsset", << "a", "#" >>) } }
    \cup Addresses

\* the JSON objects handed to fromJSON: those of the instances, one with a
\* key the declaration does not have, one without $class
Jsons ==
    { generateJSON(SampleTypes, resource) : resource \in Instances }
    \cup { generateJSON(SampleTypes, newResource(SampleParticipant, << "1" >>, NoOptions))
           @@ ("WRONG" :> Str("blah")),
           [city |-> Str("Winchester")] }

\* the options of a call or of setDefaultOptions
Options == { NoOptions, [validate |-> TRUE], [validate |-> FALSE] }

\* namespace org.acme.test
\*   asset Required identified by assetId { o String assetId  o Required theValues }
\*   asset Arrayed identified by assetId { o String assetId  o Arrayed[] theValues }
\*   asset Optional identified by assetId { o String assetId  o Optional theValues optional }
\*   asset Outer identified by assetId { o String assetId  o Inner inner optional }
\*   concept Inner { o Outer back }
\*   asset Many identified by assetId { o String assetId  o Part[] parts }
\*   concept Part { o Many[] backs  o Part next optional  --> Many owner  o String[] notes }
\*   abstract concept Base {}
\*   concept Concrete extends Base { o Base[] bases  o Base base optional }
\*   abstract concept Lonely {}
\*   concept Needs { o Lonely lonely }
GeneratorTypes ==
    { TypeDeclaration("Required", "asset", "assetId", FALSE, "",
          << Property("assetId", "String", FALSE, FALSE, FALSE),
             Property("theValues", "Required", FALSE, FALSE, FALSE) >>),
      TypeDeclaration("Arrayed", "asset", "assetId", FALSE, "",
          << Property("assetId", "String", FALSE, FALSE, FALSE),
             Property("theValues", "Arrayed", FALSE, FALSE, TRUE) >>),
      TypeDeclaration("Optional", "asset", "assetId", FALSE, "",
          << Property("assetId", "String", FALSE, FALSE, FALSE),
             Property("theValues", "Optional", FALSE, TRUE, FALSE) >>),
      TypeDeclaration("Outer", "asset", "assetId", FALSE, "",
          << Property("assetId", "String", FALSE, FALSE, FALSE),
             Property("inner", "Inner", FALSE, TRUE, FALSE) >>),
      TypeDeclaration("Inner", "concept", "", FALSE, "",
          << Property("back", "Outer", FALSE, FALSE, FALSE) >>),
      TypeDeclaration("Many", "asset", "assetId", FALSE, "",
          << Property("assetId", "String", FALSE, FALSE, FALSE),
             Property("parts", "Part", FALSE, FALSE, TRUE) >>),
      TypeDeclaration("Part", "concept", "", FALSE, "",
          << Property("backs", "Many", FALSE, FALSE, TRUE),
             Property("next", "Part", FALSE, TRUE, FALSE),
             Property("owner", "Many", TRUE, FALSE, FALSE),
             Property("notes", "String", FALSE, FALSE, TRUE) >>),
      TypeDeclaration("Base", "concept", "", TRUE, "", <<>>),
      TypeDeclaration("Concrete", "concept", "", FALSE, "Base",
          << Property("bases", "Base", FALSE, FALSE, TRUE),
             Property("base", "Base", FALSE, TRUE, FALSE) >>),
      TypeDeclaration("Lonely", "concept", "", TRUE, "", <<>>),
      TypeDeclaration("Needs", "concept", "", FALSE, "",
          << Property("lonely", "Lonely", FALSE, FALSE, FALSE) >>) }

\* the types instances are generated of
GeneratedTypes == { decl.fqn : decl \in { d \in GeneratorTypes : ~d.abstract } }

\* the fields the generator visits
GeneratorFields == UNION { { decl.properties[i] : i \in 1..Len(decl.properties) } : decl \in GeneratorTypes }

\* type above is the concrete type of an object field of type below
isFieldOf(below, above) ==
    \E field \in GeneratorFields :
        /\ \E i \in 1..Len(getTypeDeclaration(GeneratorTypes, below).properties) :
               getTypeDeclaration(GeneratorTypes, below).properties[i] = field
        /\ ~field.relationship /\ ~isPrimitive(field)
        /\ findConcreteSubclass(GeneratorTypes, getTypeDeclaration(GeneratorTypes, field.type))
               = Succeeded(getTypeDeclaration(GeneratorTypes, above))

\* the stacks of types being generated when a field is visited: no type
\* twice, each the concrete type of a field of the one below it
Seens ==
    { seen \in UNION { [1..n -> GeneratedTypes] : n \in 1..MaxSeen } :
        /\ \A i, j \in 1..Len(seen) : seen[i] = seen[j] => i = j
        /\ \A i \in 1..(Len(seen) - 1) : isFieldOf(seen[i], seen[i + 1]) }

\* parameters.valueGenerator and parameters.includeOptionalFields
GeneratorParameters ==
    [strategy : {"empty", "sample"}, includeOptionalFields : BOOLEAN]


\* /^[a]+$/, /[a]+/ and /[ab]+$/
Patterns == { Pattern(TRUE, {"a"}, TRUE), Pattern(FALSE, {"a"}, FALSE),
              Pattern(FALSE, {"a", "b"}, TRUE) }

\* the flags of a validator: none, g, i, y, gi, and two that RegExp rejects
FlagStrings == { <<>>, <<"g">>, <<"i">>, <<"y">>, <<"g", "i">>, <<"x">>, <<"g", "g">> }

StringValidators == [pattern : Patterns, flags : FlagStrings]

\* the values validated: null, 'a', 'ba' and 'A'
Values == { Null, Str(<<"a">>), Str(<<"b", "a">>), Str(<<"A">>) }


\* namespace c  import a.a.T  import a.*  { asset U }
AstC5 == Model(nsC, << ImportType(nsAA, T), ImportAll(nsA) >>,
               << Decl("AssetDeclaration", U, NoSuper) >>, "c5.cto")

\* namespace b  import a.a.*  import a.*  { asset U }
AstB6 == Model(nsB, << ImportAll(nsAA), ImportAll(nsA) >>,
               << Decl("AssetDeclaration", U, NoSuper) >>, "b6.cto")

\* namespace b  import a.*  import a.a.*  { asset U }
AstB7 == Model(nsB, << ImportAll(nsA), ImportAll(nsAA) >>,
               << Decl("AssetDeclaration", U, NoSuper) >>, "b7.cto")

\* namespace c  import a.V  { asset U }
AstC8 == Model(nsC, << ImportType(nsA, V) >>,
               << Decl("AssetDeclaration", U, NoSuper) >>, "c8.cto")

\* the models whose imports are resolved
ImportAsts == { AstA1, AstAA, AstC5, AstB6, AstB7, AstC8 }

\* the short names resolved in them
ShortNames == { T, U, V, aT, Event }


\* the models of the managers the code generator visits
ManagerAsts == { AstA1, AstEnum, AstB4 }


\* namespace org.acme.test
\*   participant MyParticipant identified by participantId { o String participantId  o String value }
\*   asset MyAsset identified by assetId
\*     { o String assetId  o String theValue  o MyParticipant test1  o MyParticipant test2 }
\*   concept Holder { o MyParticipant held }
\*   asset Branches identified by assetId
\*     { o String assetId  o Holder left  o Holder right  o MyParticipant own }
\*   asset Loop identified by assetId { o String assetId  o MyParticipant first  o Loop again }
SiblingTypes ==
    { TypeDeclaration("MyParticipant", "participant", "participantId", FALSE, "",
          << Property("participantId", "String", FALSE, FALSE, FALSE),
             Property("value", "String", FALSE, FALSE, FALSE) >>),
      TypeDeclaration("MyAsset", "asset", "assetId", FALSE, "",
          << Property("assetId", "String", FALSE, FALSE, FALSE),
             Property("theValue", "String", FALSE, FALSE, FALSE),
             Property("test1", "MyParticipant", FALSE, FALSE, FALSE),
             Property("test2", "MyParticipant", FALSE, FALSE, FALSE) >>),
      TypeDeclaration("Holder", "concept", "", FALSE, "",
          << Property("held", "MyParticipant", FALSE, FALSE, FALSE) >>),
      TypeDeclaration("Branches", "asset", "assetId", FALSE, "",
          << Property("assetId", "String", FALSE, FALSE, FALSE),
             Property("left", "Holder", FALSE, FALSE, FALSE),
             Property("right", "Holder", FALSE, FALSE, FALSE),
             Property("own", "MyParticipant", FALSE, FALSE, FALSE) >>),
      TypeDeclaration("Loop", "asset", "assetId", FALSE, "",
          << Property("assetId", "String", FALSE, FALSE, FALSE),
             Property("first", "MyParticipant", FALSE, FALSE, FALSE),
             Property("again", "Loop", FALSE, FALSE, FALSE) >>) }

SiblingNames == { decl.fqn : decl \in SiblingTypes }

SiblingFields == UNION { { decl.properties[i] : i \in 1..Len(decl.properties) } : decl \in SiblingTypes }

\* the concrete types of the object fields of the type fqn
fieldTypes(types, fqn) ==
    { findConcreteSubclass(types, getTypeDeclaration(types, field.type)).ret.fqn :
        field \in { f \in { getTypeDeclaration(types, fqn).properties[i] :
                              i \in 1..Len(getTypeDeclaration(types, fqn).properties) } :
                      /\ ~f.relationship /\ ~isPrimitive(f)
                      /\ findConcreteSubclass(types, getTypeDeclaration(types, f.type)).thrown
                            = NoError } }

\* the stacks of those types being generated when a field is visited
SiblingSeens ==
    { seen \in UNION { [1..n -> SiblingNames] : n \in 1..MaxSeen } :
        /\ \A i, j \in 1..Len(seen) : seen[i] = seen[j] => i = j
        /\ \A i \in 1..(Len(seen) - 1) : seen[i + 1] \in fieldTypes(SiblingTypes, seen[i]) }


\* the arrays ast.models of the ASTs a manager is populated from
AstBatches == UNION { [1..n -> {AstA1, AstB1, AstC, AstBad}] : n \in 0..MaxBatch }

----------------------------------------------------------------------------
(* The state machine *)

\* the record of the latest call: its arguments (a namespace or qualified name,
\* the file name of a model, the length of an array of models, the
\* disableValidation flag), the registry before it, what it threw and what it
\* returned
Call(op, ns, file, n, dv, before, thrown, ret) ==
    [op |-> op, ns |-> ns, file |-> file, n |-> n, dv |-> dv,
     before |-> before, thrown |-> thrown, ret |-> ret]

\* new BaseModelManager()
Init ==
    /\ modelFiles = addRootModel(EmptyFiles).modelFiles
    /\ last = Call("constructor", <<>>, "", 0, FALSE, EmptyFiles, "none", Null)
    /\ download = "idle"
    /\ fileWriter = [fileName |-> NoFile, lines |-> 0]
    /\ visitor = [pc |-> "idle", ast |-> rootModelAst, n |-> 0]
    /\ defaultOptions = baseDefaultOptions
    /\ result = Outcome("constructor", NoOptions, Undefined, NoError, Undefined)
    /\ regex = Undefined
    /\ verdicts = {}
    /\ pending = {}
    /\ written = <<>>
    /\ called = EmptyFiles

\* a call that ended as r: the registry it leaves and the record of it
Returns(op, ns, file, n, dv, r) ==
    /\ modelFiles' = r.modelFiles
    /\ last' = Call(op, ns, file, n, dv, modelFiles, r.thrown, Null)

DoAddModel(ast, dv) ==
    /\ Returns("addModelFile", ast.namespace, ast.fileName, 0, dv, addModel(modelFiles, ast, dv))
    /\ UNCHANGED <<download, tools>>

DoUpdateModelFile(ast, dv) ==
    /\ Returns("updateModelFile", ast.namespace, ast.fileName, 0, dv,
               updateModel(modelFiles, ast, dv))
    /\ UNCHANGED <<download, tools>>

DoDeleteModelFile(ns) ==
    /\ Returns("deleteModelFile", ns, "", 0, FALSE, deleteModelFile(modelFiles, ns))
    /\ UNCHANGED <<download, tools>>

DoAddModelFiles(asts, dv) ==
    /\ Returns("addModelFiles", <<>>, "", Len(asts), dv, addModelFiles(modelFiles, asts, dv))
    /\ UNCHANGED <<download, tools>>

DoClearModelFiles ==
    /\ Returns("clearModelFiles", <<>>, "", 0, FALSE, clearModelFiles(modelFiles))
    /\ UNCHANGED <<download, tools>>

DoFromAst(asts) ==
    /\ Returns("fromAst", <<>>, "", Len(asts), FALSE, fromAst(modelFiles, asts))
    /\ UNCHANGED <<download, tools>>

\* a getType that ended as r: the record of it
Got(qualifiedName, r) ==
    last' = Call("getType", qualifiedName, "", 0, FALSE, modelFiles, r.thrown, r.ret)

DoGetType(qualifiedName) ==
    /\ Got(qualifiedName, getType(modelFiles, qualifiedName))
    /\ UNCHANGED <<modelFiles, download, tools>>

\* updateExternalModels with nothing else running while it awaits the
\* download, which resolves with externalModels
DoUpdateExternalModels(externalModels) ==
    /\ download = "idle"
    /\ Returns("updateExternalModels", <<>>, "", Len(externalModels), FALSE,
               applyExternalModels(modelFiles, externalModels))
    /\ UNCHANGED <<download, tools>>

\* updateExternalModels whose download rejects: the await throws before the
\* snapshot is taken and before anything is applied
DoUpdateExternalModelsRejected ==
    /\ download = "idle"
    /\ last' = Call("updateExternalModels", <<>>, "", 0, FALSE, modelFiles, "Download", Null)
    /\ UNCHANGED <<modelFiles, download, tools>>

\* updateExternalModels up to its await: the download is in flight and other
\* calls may run before it resolves
StartUpdateExternalModels ==
    /\ download = "idle"
    /\ download' = "pending"
    /\ UNCHANGED <<modelFiles, last, tools>>

\* the download resolves with externalModels and the rest of
\* updateExternalModels runs without suspending
FinishUpdateExternalModels(externalModels) ==
    /\ download = "pending"
    /\ download' = "idle"
    /\ Returns("updateExternalModels", <<>>, "", Len(externalModels), FALSE,
               applyExternalModels(modelFiles, externalModels))
    /\ UNCHANGED tools

\* the download rejects
FailUpdateExternalModels ==
    /\ download = "pending"
    /\ download' = "idle"
    /\ last' = Call("updateExternalModels", <<>>, "", 0, FALSE, modelFiles, "Download", Null)
    /\ UNCHANGED <<modelFiles, tools>>

\* updateExternalModels is called: the download is in flight and other calls
\* may run before it resolves
CallUpdateExternalModels ==
    /\ download = "idle"
    /\ download' = "pending"
    /\ called' = modelFiles
    /\ UNCHANGED <<modelFiles, last, codegen, defaultOptions, result, validators, visits>>

\* the download resolves with externalModels: the snapshot is taken and the
\* rest of updateExternalModels runs without suspending
ResolveDownload(externalModels) ==
    /\ download = "pending"
    /\ download' = "idle"
    /\ Returns("updateExternalModels", <<>>, "", Len(externalModels), FALSE,
               resumeExternalModels(modelFiles, externalModels, snapshot(called, modelFiles)))
    /\ UNCHANGED tools

\* the calls a caller can make
Next ==
    \/ \E ast \in Asts, dv \in BOOLEAN : DoAddModel(ast, dv)
    \/ \E ast \in Asts, dv \in BOOLEAN : DoUpdateModelFile(ast, dv)
    \/ \E ns \in Namespaces : DoDeleteModelFile(ns)
    \/ \E asts \in Batches, dv \in BOOLEAN : DoAddModelFiles(asts, dv)
    \/ DoClearModelFiles
    \/ \E asts \in Batches : DoFromAst(asts)
    \/ \E qualifiedName \in QualifiedNames : DoGetType(qualifiedName)
    \/ \E externalModels \in Batches : DoUpdateExternalModels(externalModels)
    \/ DoUpdateExternalModelsRejected

Spec == Init /\ [][Next]_vars

\* the calls that add, update and delete model files, none of them with
\* disableValidation
NextValidated ==
    \/ \E ast \in Asts : DoAddModel(ast, FALSE)
    \/ \E ast \in Asts : DoUpdateModelFile(ast, FALSE)
    \/ \E ns \in Namespaces : DoDeleteModelFile(ns)
    \/ \E asts \in Batches : DoAddModelFiles(asts, FALSE)
    \/ \E externalModels \in Batches : DoUpdateExternalModels(externalModels)
    \/ DoUpdateExternalModelsRejected

SpecValidated == Init /\ [][NextValidated]_vars

\* the synchronous calls interleaved with one updateExternalModels whose
\* download is in flight
NextAsync ==
    \/ \E ast \in Asts, dv \in BOOLEAN : DoAddModel(ast, dv)
    \/ \E ast \in Asts, dv \in BOOLEAN : DoUpdateModelFile(ast, dv)
    \/ \E ns \in Namespaces : DoDeleteModelFile(ns)
    \/ StartUpdateExternalModels
    \/ \E externalModels \in Batches : FinishUpdateExternalModels(externalModels)
    \/ FailUpdateExternalModels

SpecAsync == Init /\ [][NextAsync]_vars

\* the calls that change the registry, made before, after and while the
\* download of one updateExternalModels is in flight
NextInFlight ==
    \/ \E ast \in {AstA1, AstB1}, dv \in BOOLEAN : DoAddModel(ast, dv)
    \/ DoUpdateModelFile(AstA2, TRUE)
    \/ \E ns \in {nsA, nsB} : DoDeleteModelFile(ns)
    \/ CallUpdateExternalModels
    \/ \E externalModels \in Batches : ResolveDownload(externalModels)
    \/ FailUpdateExternalModels

SpecInFlight == Init /\ [][NextInFlight]_vars

\* a derivesFrom that ended as r: the record of it, ns being its two arguments
Derived(fqt1, fqt2, r) ==
    last' = Call("derivesFrom", <<fqt1, fqt2>>, "", 0, FALSE, modelFiles, r.thrown, r.ret)

DoDerivesFrom(fqt1, fqt2) ==
    /\ Derived(fqt1, fqt2, derivesFrom(modelFiles, fqt1, fqt2))
    /\ UNCHANGED <<modelFiles, download, tools>>

\* models are added and deleted, and derivesFrom is asked
NextDerives ==
    \/ \E ast \in DerivesAsts, dv \in BOOLEAN : DoAddModel(ast, dv)
    \/ \E ns \in {nsA, nsB, nsC} : DoDeleteModelFile(ns)
    \/ \E fqt1 \in DerivesNames, fqt2 \in DerivesNames : DoDerivesFrom(fqt1, fqt2)

SpecDerives == Init /\ [][NextDerives]_vars

\* models are added, updated and deleted; short names are resolved in the
\* registries this leaves
NextResolve ==
    \/ \E ast \in ResolveAsts, dv \in BOOLEAN : DoAddModel(ast, dv)
    \/ \E ast \in ResolveAsts, dv \in BOOLEAN : DoUpdateModelFile(ast, dv)
    \/ \E ns \in {nsA, nsB, nsAA} : DoDeleteModelFile(ns)

SpecResolve == Init /\ [][NextResolve]_vars

\* manager.fromAst(manager.getAst())
DoFromAstOfGetAst ==
    \E models \in getAst(modelFiles) :
        /\ Returns("fromAst(getAst())", <<>>, "", Len(models), FALSE, fromAst(modelFiles, models))
        /\ UNCHANGED <<download, tools>>

\* models are added, updated and deleted, and the AST of the manager is read
\* back into it
NextRoundTrip ==
    \/ \E ast \in RoundTripAsts, dv \in BOOLEAN : DoAddModel(ast, dv)
    \/ \E ast \in RoundTripAsts, dv \in BOOLEAN : DoUpdateModelFile(ast, dv)
    \/ \E ns \in {ConcertoNs, nsA, nsB} : DoDeleteModelFile(ns)
    \/ DoFromAstOfGetAst

SpecRoundTrip == Init /\ [][NextRoundTrip]_vars

\* models are added and deleted, and the manager is populated from ASTs
NextFromAst ==
    \/ \E ast \in {AstA1, AstB1, AstAA}, dv \in BOOLEAN : DoAddModel(ast, dv)
    \/ \E ns \in {ConcertoNs, nsA, nsAA} : DoDeleteModelFile(ns)
    \/ \E asts \in AstBatches : DoFromAst(asts)

SpecFromAst == Init /\ [][NextFromAst]_vars

\* visitModelFile is not running
Ended == visitor.pc \in {"idle", "returned", "thrown"}

\* visitModelFile(modelFile, parameters) is called and opens its file
VisitModelFile(ast) ==
    /\ Ended
    /\ fileWriter' = openFile(csFileName(NewModelFile(ast).mf))
    /\ visitor' = [pc |-> "header", ast |-> ast, n |-> 1]
    /\ written' = << Called("openFile", csFileName(NewModelFile(ast).mf)) >>
    /\ UNCHANGED <<manager, defaultOptions, result, validators, pending>>

\* the writeLine at the visitor's position returns
WriteLine ==
    /\ visitor.pc \in {"header", "usings", "footer"}
    /\ fileWriter' = writeLine(fileWriter, 1)
    /\ visitor' = [visitor EXCEPT !.pc = nextStep(NewModelFile(visitor.ast).mf, visitor.pc, visitor.n).pc,
                                  !.n  = nextStep(NewModelFile(visitor.ast).mf, visitor.pc, visitor.n).n]
    /\ written' = written \o writeLines(1)
    /\ UNCHANGED <<manager, defaultOptions, result, validators, pending>>

\* decl.accept(this, parameters) returns, the declaration written
Accept ==
    /\ visitor.pc = "declarations"
    /\ fileWriter' = writeLine(fileWriter, declarationLines(NewModelFile(visitor.ast).mf.declarations[visitor.n]))
    /\ visitor' = [visitor EXCEPT !.pc = nextStep(NewModelFile(visitor.ast).mf, visitor.pc, visitor.n).pc,
                                  !.n  = nextStep(NewModelFile(visitor.ast).mf, visitor.pc, visitor.n).n]
    /\ written' = written \o writeLines(declarationLines(NewModelFile(visitor.ast).mf.declarations[visitor.n]))
    /\ UNCHANGED <<manager, defaultOptions, result, validators, pending>>

\* the writeLine or the accept at the visitor's position throws: nothing in
\* visitModelFile catches it
Throws ==
    /\ visitor.pc \in {"header", "usings", "declarations", "footer"}
    /\ visitor' = [visitor EXCEPT !.pc = "thrown"]
    /\ UNCHANGED <<manager, fileWriter, defaultOptions, result, validators, visits>>

\* the closeFile that ends visitModelFile; the forEach of visitModelManager,
\* when it made the call, goes on with the files it has yet to visit
CloseFile ==
    /\ visitor.pc = "closeFile"
    /\ fileWriter' = closeFile(fileWriter)
    /\ visitor' = [visitor EXCEPT !.pc = IF pending = {} THEN "returned" ELSE "forEach"]
    /\ written' = Append(written, Called("closeFile", NoFile))
    /\ UNCHANGED <<manager, defaultOptions, result, validators, pending>>

\* the code generator visits model files, one call after the other
NextVisit ==
    \/ \E ast \in VisitedAsts : VisitModelFile(ast)
    \/ WriteLine
    \/ Accept
    \/ Throws
    \/ CloseFile

SpecVisit == Init /\ [][NextVisit]_vars

\* visitModelManager(modelManager, parameters) is called: the forEach is to
\* visit the files of getModelFiles(true); without files it returns at once
VisitModelManager ==
    /\ Ended
    /\ pending' = getModelFiles(modelFiles, TRUE)
    /\ written' = <<>>
    /\ visitor' = [visitor EXCEPT !.pc = IF getModelFiles(modelFiles, TRUE) = {}
                                         THEN "returned" ELSE "forEach"]
    /\ UNCHANGED <<manager, fileWriter, defaultOptions, result, validators>>

\* the forEach calls modelFile.accept(this, parameters) for its next file,
\* and visitModelFile opens the file
AcceptModelFile(modelFile) ==
    /\ visitor.pc = "forEach"
    /\ modelFile \in pending
    /\ pending' = pending \ {modelFile}
    /\ fileWriter' = openFile(csFileName(modelFile))
    /\ visitor' = [pc |-> "header", ast |-> modelFile.ast, n |-> 1]
    /\ written' = Append(written, Called("openFile", csFileName(modelFile)))
    /\ UNCHANGED <<manager, defaultOptions, result, validators>>

\* the models of a manager are set up, then the code generator visits all
\* the files of the manager, once or several times
NextVisitManager ==
    \/ \E ast \in ManagerAsts : visitor.pc = "idle" /\ DoAddModel(ast, TRUE)
    \/ \E ns \in {ConcertoNs, nsA, nsB} : visitor.pc = "idle" /\ DoDeleteModelFile(ns)
    \/ VisitModelManager
    \/ \E modelFile \in pending : AcceptModelFile(modelFile)
    \/ WriteLine
    \/ Accept
    \/ Throws
    \/ CloseFile

SpecVisitManager == Init /\ [][NextVisitManager]_vars

\* a call of the Serializer that ended as r: the record of it
Serialized(op, options, input, r) ==
    result' = Outcome(op, options, input, r.thrown, r.ret)

\* serializer.setDefaultOptions(newDefaultOptions)
DoSetDefaultOptions(newDefaultOptions) ==
    /\ defaultOptions' = setDefaultOptions(newDefaultOptions)
    /\ result' = Outcome("setDefaultOptions", newDefaultOptions, Undefined, NoError, Undefined)
    /\ UNCHANGED <<manager, codegen, validators, visits>>

\* serializer.toJSON(resource, options)
DoToJSON(resource, options) ==
    /\ Serialized("toJSON", options, resource, toJSON(SampleTypes, defaultOptions, resource, options))
    /\ UNCHANGED <<manager, codegen, defaultOptions, validators, visits>>

\* serializer.fromJSON(json, options)
DoFromJSON(json, options) ==
    /\ Serialized("fromJSON", options, json, fromJSON(SampleTypes, defaultOptions, json, options))
    /\ UNCHANGED <<manager, codegen, defaultOptions, validators, visits>>

\* the calls made on a Serializer
NextSerializer ==
    \/ \E newDefaultOptions \in Options : DoSetDefaultOptions(newDefaultOptions)
    \/ \E resource \in Instances, options \in Options : DoToJSON(resource, options)
    \/ \E json \in Jsons, options \in Options : DoFromJSON(json, options)

SpecSerializer == Init /\ [][NextSerializer]_vars

\* the generation of an instance of fqn
DoGenerate(fqn, parameters) ==
    /\ Serialized("generate", parameters, fqn, generate(GeneratorTypes, fqn, parameters))
    /\ UNCHANGED <<manager, codegen, defaultOptions, validators, visits>>

\* the generator visits a field while the types of seen are being generated
DoVisitField(field, seen, parameters) ==
    /\ Serialized("visitField", parameters, [field |-> field, seen |-> seen],
                  visitField(GeneratorTypes, field, seen, parameters))
    /\ UNCHANGED <<manager, codegen, defaultOptions, validators, visits>>

\* the calls made on an InstanceGenerator
NextGenerator ==
    \/ \E fqn \in GeneratedTypes, parameters \in GeneratorParameters : DoGenerate(fqn, parameters)
    \/ \E field \in GeneratorFields, seen \in Seens, parameters \in GeneratorParameters :
           DoVisitField(field, seen, parameters)

SpecGenerator == Init /\ [][NextGenerator]_vars

\* the generation of an instance of a type with sibling fields of one type
DoGenerateSibling(fqn, parameters) ==
    /\ Serialized("generate", parameters, fqn, generate(SiblingTypes, fqn, parameters))
    /\ UNCHANGED <<manager, codegen, defaultOptions, validators, visits>>

\* the generator visits a field of those types while the types of seen are
\* being generated
DoVisitSiblingField(field, seen, parameters) ==
    /\ Serialized("visitField", parameters, [field |-> field, seen |-> seen],
                  visitField(SiblingTypes, field, seen, parameters))
    /\ UNCHANGED <<manager, codegen, defaultOptions, validators, visits>>

\* the calls made on an InstanceGenerator for the types with sibling fields
NextSiblings ==
    \/ \E fqn \in SiblingNames, parameters \in GeneratorParameters :
           DoGenerateSibling(fqn, parameters)
    \/ \E field \in SiblingFields, seen \in SiblingSeens, parameters \in GeneratorParameters :
           DoVisitSiblingField(field, seen, parameters)

SpecSiblings == Init /\ [][NextSiblings]_vars


\* new StringValidator(field, validator)
NewStringValidator(validator) ==
    /\ regex' = StringValidator(validator).regex
    /\ verdicts' = {}
    /\ result' = Outcome("new StringValidator", NoOptions, validator,
                         StringValidator(validator).thrown, Undefined)
    /\ UNCHANGED <<manager, codegen, defaultOptions, visits>>

\* a validate that ended as r: the regex it leaves and the record of it
Validated(value, r) ==
    /\ regex' = r.regex
    /\ verdicts' = verdicts \cup { <<value, r.thrown>> }
    /\ result' = Outcome("validate", NoOptions, value, r.thrown, Undefined)

\* stringValidator.validate(identifier, value)
DoValidate(value) ==
    /\ regex # Undefined
    /\ Validated(value, stringValidate(regex, value))
    /\ UNCHANGED <<manager, codegen, defaultOptions, visits>>

\* the calls made on a StringValidator
NextValidator ==
    \/ \E validator \in StringValidators : NewStringValidator(validator)
    \/ \E value \in Values : DoValidate(value)

SpecValidator == Init /\ [][NextValidator]_vars


\* models with named and wildcard imports are added, updated and deleted;
\* short names are resolved in the registries this leaves
NextImports ==
    \/ \E ast \in ImportAsts, dv \in BOOLEAN : DoAddModel(ast, dv)
    \/ \E ast \in ImportAsts, dv \in BOOLEAN : DoUpdateModelFile(ast, dv)
    \/ \E ns \in {nsA, nsAA, nsB, nsC} : DoDeleteModelFile(ns)

SpecImports == Init /\ [][NextImports]_vars

----------------------------------------------------------------------------
(* Properties *)

\* the model of Asts with the given file name
AstNamed(file) == CHOOSE ast \in Asts \cup BatchAsts : ast.fileName = file

\* the latest call was op on a model whose ModelFile could be constructed
CalledWithModelFile(op) ==
    /\ last.op = op
    /\ NewModelFile(AstNamed(last.file)).thrown = "none"

\* C1: when addModelFiles throws, for whatever reason, the namespace map is
\* the map of before the call: no file of the batch stays registered
C1_BatchAddRollsBack ==
    (last.op = "addModelFiles" /\ last.thrown # "none") => modelFiles = last.before

\* a batch that failed on a later file, after earlier files of it were installed
C1_Witness ==
    /\ last.op = "addModelFiles"
    /\ last.thrown # "none"
    /\ \E asts \in Batches :
          /\ Len(asts) = last.n
          /\ addModelFiles(last.before, asts, last.dv) = Result(modelFiles, last.thrown)
          /\ addModelFilesLoop(Result(last.before, "none"), asts, 1).modelFiles # last.before

C3_FailedValidationInstallsNothing ==
    (/\ CalledWithModelFile("addModelFile") \/ CalledWithModelFile("updateModelFile")
     /\ ~last.dv
     /\ last.thrown # "none"
     /\ last.thrown = validate(last.before, NewModelFile(AstNamed(last.file)).mf))
        => modelFiles = last.before

\* an update of a registered namespace failed validation
C3_Witness ==
    /\ CalledWithModelFile("updateModelFile")
    /\ ~last.dv
    /\ last.thrown = "IllegalModel"
    /\ last.ns \in DOMAIN last.before
    /\ last.before[last.ns].fileName # last.file

\* C4: updateModelFile and deleteModelFile of a namespace that is not
\* registered throw and leave the map unchanged; updateModelFile never
\* changes the set of namespaces, and when it succeeds the namespace maps to
\* the new file
C4_UpdateAndDeleteNeedTheNamespace ==
    /\ (CalledWithModelFile("updateModelFile") /\ last.ns \notin DOMAIN last.before)
          => (last.thrown = "NotFound" /\ modelFiles = last.before)
    /\ (last.op = "deleteModelFile" /\ last.ns \notin DOMAIN last.before)
          => (last.thrown = "DoesNotExist" /\ modelFiles = last.before)
    /\ last.op = "updateModelFile" => DOMAIN modelFiles = DOMAIN last.before
    /\ (last.op = "updateModelFile" /\ last.thrown = "none")
          => (/\ modelFiles[last.ns].ast = AstNamed(last.file)
              /\ \A ns \in DOMAIN modelFiles \ {last.ns} : modelFiles[ns] = last.before[ns])

\* C5: from any registry, a successful addModelFile of a file whose namespace
\* is not registered followed by deleteModelFile of that namespace gives the
\* registry back; deleteModelFile removes the entry of its namespace and
\* leaves every other entry as it was
C5_AddThenDeleteRestores ==
    /\ \A ast \in Asts, dv \in BOOLEAN :
          LET added == addModel(modelFiles, ast, dv)
          IN (ast.namespace \notin DOMAIN modelFiles /\ added.thrown = "none")
                => deleteModelFile(added.modelFiles, ast.namespace) = Result(modelFiles, "none")
    /\ (last.op = "deleteModelFile" /\ last.thrown = "none")
          => (/\ DOMAIN modelFiles = DOMAIN last.before \ {last.ns}
              /\ \A ns \in DOMAIN modelFiles : modelFiles[ns] = last.before[ns])

\* a delete that undid an add: the registry before the delete is what an add
\* makes of the registry after it
C5_Witness ==
    /\ last.op = "deleteModelFile"
    /\ last.thrown = "none"
    /\ Cardinality(DOMAIN modelFiles) >= 2
    /\ \E ast \in Asts, dv \in BOOLEAN :
          /\ ast.namespace = last.ns
          /\ addModel(modelFiles, ast, dv) = Result(last.before, "none")

\* C6: as long as no caller disables validation, every import of every
\* registered file names a registered namespace, and every named import
\* names a type declared in that namespace
C6_EveryImportResolves ==
    \A ns \in DOMAIN modelFiles :
        \A i \in 1..Len(modelFiles[ns].imports) :
            LET imp == modelFiles[ns].imports[i]
            IN /\ imp.namespace \in DOMAIN modelFiles
               /\ imp.class # "ImportAll" =>
                     \E n \in 1..Len(modelFiles[imp.namespace].declarations) :
                         modelFiles[imp.namespace].declarations[n].name = imp.name

\* C7: the entry of namespace concerto is never a caller's model file
C7_ConcertoIsReserved ==
    ConcertoNs \in DOMAIN modelFiles => modelFiles[ConcertoNs].fileName = rootModelFile

\* C8: right after construction and right after clearModelFiles,
\* getNamespaces() is {concerto} and getModelFiles() is empty
C8_ClearLeavesOnlyTheRootModel ==
    last.op \in {"constructor", "clearModelFiles"}
        => (/\ last.thrown = "none"
            /\ getNamespaces(modelFiles) = {ConcertoNs}
            /\ getModelFiles(modelFiles, FALSE) = {})

\* clearModelFiles ran on a registry that held other namespaces
C8_Witness ==
    /\ last.op = "clearModelFiles"
    /\ Cardinality(DOMAIN last.before) >= 3
    /\ getNamespaces(modelFiles) = {ConcertoNs}

\* C9: for every registered file m and every short name t it declares,
\* getType(m.namespace + '.' + t) returns the declaration m.getLocalType(t)
C9_GetTypeAgreesWithGetLocalType ==
    \A ns \in DOMAIN modelFiles :
        \A n \in 1..Len(modelFiles[ns].declarations) :
            LET t == modelFiles[ns].declarations[n].name
            IN getType(modelFiles, ns \o Dot \o t)
                 = [thrown |-> "none", ret |-> getLocalType(modelFiles[ns], t)]

\* C10: getType(fqn) returns a declaration of the file registered for fqn's
\* namespace or throws TypeNotFoundException; it never returns null and
\* never changes the registry
C10_GetTypeReturnsOwnDeclarationOrThrows ==
    last.op = "getType" =>
        /\ modelFiles = last.before
        /\ \/ last.thrown = "TypeNotFound"
           \/ /\ last.thrown = "none"
              /\ last.ret # Null
              /\ getNamespace(last.ns) \in DOMAIN modelFiles
              /\ \E n \in 1..Len(modelFiles[getNamespace(last.ns)].declarations) :
                    modelFiles[getNamespace(last.ns)].declarations[n] = last.ret

\* the declarations reached from decls by following super-type links, decls
\* included; a link that resolves to no declaration leads nowhere
RECURSIVE ancestors(_, _)
ancestors(files, decls) ==
    LET linked == { d \in decls : /\ d.superType # NoSuper
                                  /\ getSuperTypeDeclaration(files, d).thrown = "none" }
        supers == { getSuperTypeDeclaration(files, d).ret : d \in linked }
    IN IF supers \subseteq decls THEN decls ELSE ancestors(files, decls \cup supers)

\* every super-type link on the way up from decl resolves to a declaration
chainResolves(files, decl) ==
    \A d \in ancestors(files, {decl}) : getSuperTypeDeclaration(files, d).thrown = "none"

\* C11: for a registered declaration a whose super-type links all resolve,
\* derivesFrom(a, b) returns, and returns true exactly when b is the fully
\* qualified name of a or of a declaration reached from a by super-type links
C11_DerivesFromIsTheAncestorChain ==
    (/\ last.op = "derivesFrom"
     /\ getType(last.before, last.ns[1]).thrown = "none"
     /\ chainResolves(last.before, getType(last.before, last.ns[1]).ret))
        => /\ last.thrown = "none"
           /\ last.ret = (last.ns[2] \in
                 { getFullyQualifiedName(d) :
                     d \in ancestors(last.before, {getType(last.before, last.ns[1]).ret}) })

\* C12: when updateExternalModels throws (the download rejects, a downloaded
\* file cannot be built, or the revalidation fails), the namespace map is the
\* map of before the first downloaded file was applied
C12_ExternalUpdateRollsBack ==
    (last.op = "updateExternalModels" /\ last.thrown # "none") => modelFiles = last.before

\* an updateExternalModels that failed after a downloaded file had replaced
\* the file registered for its namespace
C12_Witness ==
    /\ last.op = "updateExternalModels"
    /\ last.thrown # "none"
    /\ \E externalModels \in Batches :
          /\ Len(externalModels) = last.n
          /\ applyExternalModels(last.before, externalModels) = Result(modelFiles, last.thrown)
          /\ \E ns \in DOMAIN last.before :
                externalLoop(Result(last.before, "none"), externalModels, 1).modelFiles[ns]
                    # last.before[ns]

\* C13: in every registered file, a short name the file declares (one that
\* does not begin with the characters of the namespace, see C9) resolves to
\* the file's own declaration <ns>.<name>, also when the name is a named
\* import, explicit or implicit, or a local type of a wildcard-imported
\* namespace
C13_LocalDeclarationComesBeforeImports ==
    \A ns \in DOMAIN modelFiles :
        \A n \in 1..Len(modelFiles[ns].declarations) :
            LET name == modelFiles[ns].declarations[n].name
            IN (~isPrimitiveType(name) /\ ~startsWith(name, ns)) =>
                  /\ modelFileGetType(modelFiles, modelFiles[ns], name)
                        = Return(localTypesGet(modelFiles[ns], ns \o Dot \o name))
                  /\ getFullyQualifiedTypeName(modelFiles, modelFiles[ns], name)
                        = Return(ns \o Dot \o name)

\* the fully qualified names of the five built-in imports
implicitNames == { importFullyQualifiedName(implicitImports[i]) : i \in 1..Len(implicitImports) }

\* C14: in every registered file whose namespace is not concerto, Concept,
\* Asset, Participant, Transaction and Event resolve to concerto.<name>
\* whatever the AST imports, and getImports() is the imports of the AST in
\* their order followed by those five; a file of namespace concerto has the
\* imports of its AST and no others
C14_ImplicitConcertoImports ==
    \A ns \in DOMAIN modelFiles :
        LET mf       == modelFiles[ns]
            explicit == [i \in 1..Len(mf.ast.imports) |-> importFullyQualifiedName(mf.ast.imports[i])]
        IN IF ns = ConcertoNs
           THEN getImports(mf) = explicit
           ELSE /\ \A name \in {Concept, Asset, Participant, Transaction, Event} :
                       resolveImport(modelFiles, mf, name) = Return(ConcertoNs \o Dot \o name)
                /\ Len(getImports(mf)) = Len(explicit) + 5
                /\ SubSeq(getImports(mf), 1, Len(explicit)) = explicit
                /\ { getImports(mf)[i] : i \in (Len(explicit) + 1)..Len(getImports(mf)) } = implicitNames

\* C14 witness: a file that imports a.Event and a.* is registered, and so is
\* the root model
C14_Witness ==
    /\ nsB \in DOMAIN modelFiles /\ modelFiles[nsB].fileName = "b4.cto"
    /\ ConcertoNs \in DOMAIN modelFiles /\ modelFiles[ConcertoNs].fileName = rootModelFile
    /\ last.op = "addModelFile" /\ last.file = "b4.cto" /\ last.thrown = "none"

\* the part of a ModelFile's AST that the metamodel holds
astOf(mf) == [namespace |-> mf.ast.namespace, imports |-> mf.ast.imports,
              declarations |-> mf.ast.declarations]

\* C15: when every registered file validates, fromAst(getAst()) does not
\* throw, leaves the set of registered namespaces as it was, and every file
\* of a namespace other than concerto has the AST of the file it replaces
C15_FromAstOfGetAstRoundTrips ==
    (last.op = "fromAst(getAst())" /\ validateModelFiles(last.before) = "none") =>
        /\ last.thrown = "none"
        /\ DOMAIN modelFiles = DOMAIN last.before
        /\ \A ns \in DOMAIN modelFiles \ {ConcertoNs} :
               astOf(modelFiles[ns]) = astOf(last.before[ns])

\* C16: no call of visitModelFile ends, by returning or by an exception of a
\* writeLine or of a declaration's visit, with the file it opened not closed
C16_EveryOpenFileIsClosed ==
    visitor.pc \in {"returned", "thrown"} => fileWriter.fileName = NoFile

missingFields(decl, keys) ==
    { getProperties(decl)[i].name : i \in { j \in 1..Len(getProperties(decl)) :
        /\ ~getProperties(decl)[j].optional
        /\ getProperties(decl)[j].name \notin keys } }

\* the declaration and the keys of the input of a toJSON or of a fromJSON
inputDeclaration == getTypeDeclaration(SampleTypes,
    IF result.op = "toJSON" THEN result.input.class ELSE result.input["$class"].string)

inputKeys == IF result.op = "toJSON" THEN DOMAIN result.input.values ELSE DOMAIN result.input

\* the keys of what a toJSON or a fromJSON returned
resultKeys == IF result.op = "toJSON" THEN DOMAIN result.ret ELSE DOMAIN result.ret.values

\* the identifier of the input of a toJSON or of a fromJSON
inputIdentifier ==
    IF result.op = "toJSON" THEN result.input.values[inputDeclaration.identifier].string
    ELSE result.input[inputDeclaration.identifier].string

\* the required fields that the input of a toJSON or of a fromJSON misses;
\* the factory sets $identifier and $timestamp
inputMisses == missingFields(inputDeclaration, inputKeys \cup {"$identifier", "$timestamp"})

\* a toJSON of an identified instance, or a fromJSON of a JSON object of the
\* keys of an identified declaration, that misses a required field
MissesARequiredField ==
    /\ result.op \in {"toJSON", "fromJSON"}
    /\ "$class" \in inputKeys \cup (IF result.op = "toJSON" THEN {"$class"} ELSE {})
    /\ (inputKeys \ {"$class"}) \subseteq propertyNames(inputDeclaration)
    /\ isIdentifiable(inputDeclaration)
    /\ inputMisses # {}

\* C18: the validate flag of a call is the option of the call when it has
\* one, else the default, which is what setDefaultOptions was given and true
\* when it was given none. A toJSON or fromJSON of an identified instance that
\* misses a required field fails, when the flag is true, with an error that
\* names <FQN>#<identifier> and a missing field; when the flag is false it
\* returns, and the result does not have the field
C18_ValidateFlagOfTheCallThenTheDefault ==
    /\ result.op = "setDefaultOptions" =>
           defaultOptions.validate =
               (IF "validate" \in DOMAIN result.options THEN result.options.validate ELSE TRUE)
    /\ MissesARequiredField =>
           IF (IF "validate" \in DOMAIN result.options
               THEN result.options.validate ELSE defaultOptions.validate)
           THEN /\ result.thrown.error = "ModelViolation"
                /\ result.thrown.what = "missing"
                /\ result.thrown.instance = << inputDeclaration.fqn, "#", inputIdentifier >>
                /\ result.thrown.field \in inputMisses
           ELSE /\ result.thrown = NoError
                /\ inputMisses \cap resultKeys = {}

\* C18 witness: with the default true, toJSON with validate false of an
\* asset without owner returned
C18_Witness ==
    /\ result.op = "toJSON"
    /\ defaultOptions = [validate |-> TRUE]
    /\ result.options = [validate |-> FALSE]
    /\ result.input.class = SampleAsset.fqn
    /\ "owner" \notin DOMAIN result.input.values
    /\ result.thrown = NoError

\* the concrete type of an object field
concreteOf(field) == findConcreteSubclass(GeneratorTypes, getTypeDeclaration(GeneratorTypes, field.type))

\* in a generated instance, path being the types from the root to it: no
\* instance is of a type on its path, an object field is null only where its
\* concrete type is on the path and it is optional and no array, and is an
\* empty array of the sample generator only where its concrete type is on
\* the path
RECURSIVE cutAtRecursion(_, _, _)
cutAtField(field, value, path, parameters) ==
    IF value = Null
    THEN concreteOf(field).ret.fqn \in path /\ field.optional /\ ~field.array
    ELSE IF field.array
    THEN /\ (value.array = <<>> /\ parameters.strategy = "sample") => concreteOf(field).ret.fqn \in path
         /\ \A i \in 1..Len(value.array) : cutAtRecursion(value.array[i], path, parameters)
    ELSE cutAtRecursion(value, path, parameters)

cutAtRecursion(instance, path, parameters) ==
    /\ instance.class \notin path
    /\ \A i \in 1..Len(getTypeDeclaration(GeneratorTypes, instance.class).properties) :
           LET field == getTypeDeclaration(GeneratorTypes, instance.class).properties[i]
           IN (field.name \in DOMAIN instance.values /\ ~field.relationship /\ ~isPrimitive(field)) =>
                  cutAtField(field, instance.values[field.name], path \cup {instance.class}, parameters)

\* C19: a visit of an object field whose concrete type is on the stack of the
\* types being generated fails with 'Model is recursive' when the field is
\* required and no array, returns null when it is optional and no array, and
\* returns an empty array when it is an array; a generation that returns has
\* cut every recursion in one of the latter two ways, and one of a type with
\* a required field of its own type fails with 'Model is recursive'
C19_RecursiveFieldsEndTheGeneration ==
    /\ (/\ result.op = "visitField"
        /\ ~result.input.field.relationship /\ ~isPrimitive(result.input.field)
        /\ concreteOf(result.input.field).thrown = NoError
        /\ \E i \in 1..Len(result.input.seen) :
               result.input.seen[i] = concreteOf(result.input.field).ret.fqn) =>
           IF result.input.field.array THEN result.thrown = NoError /\ result.ret = Arr(<<>>)
           ELSE IF result.input.field.optional THEN result.thrown = NoError /\ result.ret = Null
           ELSE result.thrown = ModelIsRecursive
    /\ (result.op = "generate" /\ result.thrown = NoError) =>
           cutAtRecursion(result.ret, {}, result.options)
    /\ (result.op = "generate" /\ result.input = "Required") => result.thrown = ModelIsRecursive

\* C19 witness: the sample generation of a Many with optional fields
\* returned, its part with an empty array of Many and no next Part
C19_Witness ==
    /\ result.op = "generate"
    /\ result.input = "Many"
    /\ result.options = [strategy |-> "sample", includeOptionalFields |-> TRUE]
    /\ result.thrown = NoError
    /\ result.ret.values["parts"].array[1].values["backs"] = Arr(<<>>)
    /\ result.ret.values["parts"].array[1].values["next"] = Null

\* C20: addModelFile with validation enabled throws whenever a file of the
\* namespace set it would leave, the new one or one registered before, fails
\* validation
C20_AddValidatesEveryRegisteredFile ==
    (/\ CalledWithModelFile("addModelFile")
     /\ ~last.dv
     /\ validateModelFiles(Put(last.before, last.ns, NewModelFile(AstNamed(last.file)).mf)) # "none")
        => last.thrown # "none"


\* the orders a batch can be handed over in
Orders(asts) ==
    { [i \in 1..Len(asts) |-> asts[p[i]]] :
        p \in { q \in [1..Len(asts) -> 1..Len(asts)] :
                  \A i, j \in 1..Len(asts) : q[i] = q[j] => i = j } }

\* the models of asts added one at a time from asts[n] on with addModel,
\* validation enabled, r being the outcome so far
RECURSIVE addOneAtATime(_, _, _)
addOneAtATime(r, asts, n) ==
    IF n > Len(asts) \/ r.thrown # "none" THEN r
    ELSE addOneAtATime(addModel(r.modelFiles, asts[n], FALSE), asts, n + 1)

\* every model of asts comes after the namespaces its file imports: they are
\* registered in files or belong to an earlier model of asts
InImportOrder(files, asts) ==
    \A i \in 1..Len(asts) :
        \A k \in 1..Len(NewModelFile(asts[i]).mf.imports) :
            NewModelFile(asts[i]).mf.imports[k].namespace
                \in DOMAIN files \cup { asts[j].namespace : j \in 1..(i-1) }

\* the last call was addModelFiles(asts) with validation enabled
ValidatedBatchWas(asts) ==
    /\ last.op = "addModelFiles"
    /\ ~last.dv
    /\ last.n = Len(asts)
    /\ addModelFiles(last.before, asts, FALSE) = Result(modelFiles, last.thrown)

\* C21: addModelFiles with validation enabled validates after the whole batch
\* is installed: every order of the batch succeeds or fails alike and leaves
\* the same namespaces, while the same models added one at a time with
\* validation succeed only when each comes after the namespaces it imports
C21_BatchValidatesAfterInstallingEveryFile ==
    \A asts \in Batches :
        ValidatedBatchWas(asts) =>
            /\ \A perm \in Orders(asts) :
                  /\ (addModelFiles(last.before, perm, FALSE).thrown = "none")
                        <=> (last.thrown = "none")
                  /\ DOMAIN addModelFiles(last.before, perm, FALSE).modelFiles
                        = DOMAIN modelFiles
            /\ addOneAtATime(Result(last.before, "none"), asts, 1).thrown = "none"
                  => InImportOrder(last.before, asts)

\* a validated batch succeeded with the importing file ahead of the file it
\* imports from, an order in which adding them one at a time throws
C21_Witness ==
    /\ ValidatedBatchWas(<< AstB1, AstA1 >>)
    /\ last.thrown = "none"
    /\ { nsA, nsB } \subseteq DOMAIN modelFiles
    /\ addOneAtATime(Result(last.before, "none"), << AstB1, AstA1 >>, 1).thrown # "none"
    /\ addOneAtATime(Result(last.before, "none"), << AstA1, AstB1 >>, 1).thrown = "none"


\* value matches the pattern of regex under its flags: somewhere in the
\* value, or at the start of it under the flag y
matchesPattern(re, value) ==
    \E index \in 0..Len(value) :
        /\ matchEnd(re, value, index) # -1
        /\ hasFlag(re.flags, "y") => index = 0

\* C22: validate accepts null, and throws for a value that is not null
\* exactly when the value does not match the pattern with its flags
C22_ValidateThrowsIffNoMatch ==
    result.op = "validate" =>
        (result.thrown = "none"
            <=> (result.input = Null \/ matchesPattern(regex, result.input.string)))

\* C29: the verdict of validate on a value is the same for every call made
\* on the validator, whatever was validated in between
C29_VerdictDoesNotDependOnEarlierCalls ==
    \A v, w \in verdicts : v[1] = w[1] => v[2] = w[2]


\* the import imp names the short name type
namesType(imp, type) == imp.class = "ImportType" /\ imp.name = type

\* the import imp is a wildcard import of a registered namespace that has a
\* local type of that short name
providesType(imp, type) ==
    /\ imp.class = "ImportAll"
    /\ imp.namespace \in DOMAIN modelFiles
    /\ isLocalType(modelFiles[imp.namespace], type)

\* C23: in every registered file, a short name that is neither primitive nor
\* local resolves to the fully qualified name of its named import, whatever
\* the wildcard imports provide; else to W.T for the first wildcard import,
\* in the order of the imports, whose namespace W has a local T; else
\* resolveImport and resolveType throw IllegalModelException and getType
\* returns null
C23_NamedImportThenWildcardsInOrder ==
    \A ns \in DOMAIN modelFiles : \A type \in ShortNames :
        (~isPrimitiveType(type) /\ ~isLocalType(modelFiles[ns], type)) =>
            IF \E i \in 1..Len(modelFiles[ns].imports) : namesType(modelFiles[ns].imports[i], type)
            THEN \E i \in 1..Len(modelFiles[ns].imports) :
                    /\ namesType(modelFiles[ns].imports[i], type)
                    /\ \A j \in (i+1)..Len(modelFiles[ns].imports) :
                          ~namesType(modelFiles[ns].imports[j], type)
                    /\ resolveImport(modelFiles, modelFiles[ns], type)
                          = Return(modelFiles[ns].imports[i].namespace \o Dot \o type)
            ELSE IF \E i \in 1..Len(modelFiles[ns].imports) : providesType(modelFiles[ns].imports[i], type)
            THEN \E i \in 1..Len(modelFiles[ns].imports) :
                    /\ providesType(modelFiles[ns].imports[i], type)
                    /\ \A j \in 1..(i-1) : ~providesType(modelFiles[ns].imports[j], type)
                    /\ resolveImport(modelFiles, modelFiles[ns], type)
                          = Return(modelFiles[ns].imports[i].namespace \o Dot \o type)
                    /\ modelFileGetType(modelFiles, modelFiles[ns], type)
                          = Return(getLocalType(modelFiles[modelFiles[ns].imports[i].namespace], type))
            ELSE /\ resolveImport(modelFiles, modelFiles[ns], type) = Throw("IllegalModel")
                 /\ resolveType(modelFiles, modelFiles[ns], type) = "IllegalModel"
                 /\ modelFileGetType(modelFiles, modelFiles[ns], type) = Return(Null)

\* C23 witness: a file that imports a.a.T and a.*, and a file that imports
\* a.a.* and a.*, are registered with the namespaces a and a.a, which both
\* declare T
C23_Witness ==
    /\ { nsA, nsAA, nsB, nsC } \subseteq DOMAIN modelFiles
    /\ modelFiles[nsC].fileName = "c5.cto"
    /\ modelFiles[nsB].fileName = "b6.cto"
    /\ isLocalType(modelFiles[nsA], T) /\ isLocalType(modelFiles[nsAA], T)
    /\ resolveImport(modelFiles, modelFiles[nsC], T) = Return(nsAA \o Dot \o T)
    /\ resolveImport(modelFiles, modelFiles[nsB], T) = Return(nsAA \o Dot \o T)
    /\ resolveImport(modelFiles, modelFiles[nsB], V) = Throw("IllegalModel")


\* the indexes of the openFile calls made since the visit began
opened == { i \in 1..Len(written) : written[i].call = "openFile" }

\* every openFile is the first call or follows a closeFile, and every
\* writeLine and every closeFile follows an openFile or a writeLine
Bracketed ==
    \A i \in 1..Len(written) :
        IF written[i].call = "openFile"
        THEN i = 1 \/ written[i-1].call = "closeFile"
        ELSE i > 1 /\ written[i-1].call \in {"openFile", "writeLine"}

\* C24: visitModelManager opens one file per registered namespace, concerto
\* included, named <namespace>.cs; openFile and closeFile alternate, beginning
\* with an openFile and, when the visit returns, ending with a closeFile; and
\* every writeLine comes between an openFile and its closeFile
C24_OneFilePerNamespaceOpenedThenClosed ==
    /\ Bracketed
    /\ \A i, j \in opened : written[i].fileName = written[j].fileName => i = j
    /\ { written[i].fileName : i \in opened }
          \subseteq { ns \o <<".", "c", "s">> : ns \in DOMAIN modelFiles }
    /\ visitor.pc = "returned" =>
          /\ { written[i].fileName : i \in opened }
                = { ns \o <<".", "c", "s">> : ns \in DOMAIN modelFiles }
          /\ written = <<>> \/ written[Len(written)].call = "closeFile"

\* C24 witness: the visit of a manager that holds concerto, a and b has
\* returned, three files opened and closed
C24_Witness ==
    /\ visitor.pc = "returned"
    /\ DOMAIN modelFiles = { ConcertoNs, nsA, nsB }
    /\ Cardinality(opened) = 3
    /\ Called("openFile", ConcertoNs \o <<".", "c", "s">>) \in { written[i] : i \in opened }
    /\ Cardinality({ i \in 1..Len(written) : written[i].call = "closeFile" }) = 3


\* C25: in every registered file getFullyQualifiedTypeName throws nothing:
\* it returns the name of a primitive, the fully qualified name of the
\* declaration a name resolves to, and null for a name that resolves to no
\* declaration, a named import of a namespace that is not registered or
\* that has no such type included
C25_FullyQualifiedTypeNameNeverThrows ==
    \A ns \in DOMAIN modelFiles : \A type \in ShortNames \cup primitiveTypes :
        /\ getFullyQualifiedTypeName(modelFiles, modelFiles[ns], type).thrown = "none"
        /\ isPrimitiveType(type) =>
              getFullyQualifiedTypeName(modelFiles, modelFiles[ns], type).ret = type
        /\ modelFileGetType(modelFiles, modelFiles[ns], type) = Return(Null) =>
              getFullyQualifiedTypeName(modelFiles, modelFiles[ns], type).ret = Null
        /\ (~isPrimitiveType(type)
            /\ modelFileGetType(modelFiles, modelFiles[ns], type).thrown = "none"
            /\ modelFileGetType(modelFiles, modelFiles[ns], type).ret # Null) =>
              getFullyQualifiedTypeName(modelFiles, modelFiles[ns], type).ret
                 = getFullyQualifiedName(modelFileGetType(modelFiles, modelFiles[ns], type).ret)


\* the types reached from the types of from through k object fields at most
RECURSIVE reached(_, _, _)
reached(types, from, k) ==
    IF k = 0 THEN from
    ELSE reached(types, from \cup UNION { fieldTypes(types, fqn) : fqn \in from }, k - 1)

\* the types an instance of fqn holds instances of, at any depth
below(types, fqn) == reached(types, fieldTypes(types, fqn), Cardinality(types))

\* no type that an instance of fqn holds, fqn included, holds itself
acyclic(types, fqn) ==
    \A type \in {fqn} \cup below(types, fqn) : type \notin below(types, type)

\* every required object field of instance, at any depth, holds an instance
\* of its type
RECURSIVE filled(_, _)
filled(types, instance) ==
    \A i \in 1..Len(getTypeDeclaration(types, instance.class).properties) :
        LET field == getTypeDeclaration(types, instance.class).properties[i]
        IN (~field.relationship /\ ~isPrimitive(field) /\ ~field.optional /\ ~field.array) =>
              /\ field.name \in DOMAIN instance.values
              /\ instance.values[field.name] # Null
              /\ instance.values[field.name].class = field.type
              /\ filled(types, instance.values[field.name])

\* C26: the seen set holds the types of the current traversal stack only: a
\* generation of a type that holds no type within itself never fails with
\* 'Model is recursive' and fills every required object field, sibling
\* fields of one type and fields of one type on different branches included;
\* and so does the visit of a field of such a type while none of the types
\* it holds is on the stack
C26_SeenIsTheTraversalStack ==
    /\ (result.op = "generate" /\ acyclic(SiblingTypes, result.input)) =>
          /\ result.thrown = NoError
          /\ filled(SiblingTypes, result.ret)
    /\ (/\ result.op = "visitField"
        /\ ~result.input.field.relationship /\ ~isPrimitive(result.input.field)
        /\ acyclic(SiblingTypes, result.input.field.type)
        /\ \A i \in 1..Len(result.input.seen) :
              result.input.seen[i] \notin {result.input.field.type}
                                          \cup below(SiblingTypes, result.input.field.type)) =>
          /\ result.thrown = NoError
          /\ result.input.field.array \/ filled(SiblingTypes, result.ret)

\* C26 witness: the generation of a MyAsset returned with its fields test1
\* and test2 both holding a MyParticipant
C26_Witness ==
    /\ result.op = "generate"
    /\ result.input = "MyAsset"
    /\ result.thrown = NoError
    /\ result.ret.values["test1"].class = "MyParticipant"
    /\ result.ret.values["test2"].class = "MyParticipant"


\* C27: every entry of the namespace map is stored under the namespace of
\* the file it holds, so no two registered files have the same namespace
C27_FilesAreStoredUnderTheirNamespace ==
    /\ \A ns \in DOMAIN modelFiles : modelFiles[ns].namespace = ns
    /\ \A ns1, ns2 \in DOMAIN modelFiles :
          modelFiles[ns1].namespace = modelFiles[ns2].namespace => ns1 = ns2

\* C27 witness: a batch add was rolled back to a map that holds the files of
\* the namespaces a and b, one of them put there by an update
C27_Witness ==
    /\ last.op = "addModelFiles"
    /\ last.thrown # "none"
    /\ { ConcertoNs, nsA, nsB } \subseteq DOMAIN modelFiles
    /\ modelFiles[nsA].fileName = "a2.cto"


\* the model asts[i] cannot be installed after those before it: its ModelFile
\* cannot be built, or its namespace is concerto or that of an earlier model
notInstalled(asts, i) ==
    \/ NewModelFile(asts[i]).thrown # "none"
    \/ asts[i].namespace = ConcertoNs
    \/ \E j \in 1..(i-1) : asts[j].namespace = asts[i].namespace

\* how many models of asts are installed before the first that is not
installedBefore(asts) ==
    IF \E i \in 1..Len(asts) : notInstalled(asts, i)
    THEN (CHOOSE i \in 1..Len(asts) :
             notInstalled(asts, i) /\ \A j \in 1..(i-1) : ~notInstalled(asts, j)) - 1
    ELSE Len(asts)

\* the last call was fromAst of the models asts
FromAstWas(asts) ==
    /\ last.op = "fromAst"
    /\ last.n = Len(asts)
    /\ fromAst(last.before, asts) = Result(modelFiles, last.thrown)

\* C28: when fromAst throws, the registry holds the root model and the
\* models of the AST installed before the failure (all of them when it is
\* the validation that fails), and nothing of what was registered before
C28_FromAstDoesNotRollBack ==
    \A asts \in AstBatches :
        (FromAstWas(asts) /\ last.thrown # "none") =>
            /\ DOMAIN modelFiles
                  = {ConcertoNs} \cup { asts[i].namespace : i \in 1..installedBefore(asts) }
            /\ modelFiles[ConcertoNs] = NewModelFile(rootModelAst).mf
            /\ \A i \in 1..installedBefore(asts) :
                  modelFiles[asts[i].namespace] = NewModelFile(asts[i]).mf
            /\ installedBefore(asts) = Len(asts) => validateModelFiles(modelFiles) # "none"

\* C28 witness: fromAst threw on its second model after it installed the
\* first, and the file of a.a registered before the call is gone
C28_Witness ==
    /\ FromAstWas(<< AstA1, AstC >>)
    /\ last.thrown # "none"
    /\ nsAA \in DOMAIN last.before
    /\ DOMAIN modelFiles = { ConcertoNs, nsA }


\* what the registry files holds for the namespace ns, Null when nothing
entry(files, ns) == IF ns \in DOMAIN files THEN files[ns] ELSE Null

\* the namespaces whose entry was added, replaced or deleted between the
\* call of updateExternalModels and the moment its download finished
changedInFlight ==
    { ns \in DOMAIN called \cup DOMAIN last.before : entry(called, ns) # entry(last.before, ns) }

\* C30: the outcome of updateExternalModels is built on the registry of the
\* moment the download finished: after a failure the namespace map is that
\* registry, with what other calls changed while the download was in flight
\* not undone; after a success every namespace changed in flight that no
\* downloaded file is of holds what those calls left
C30_SnapshotIsTakenWhenTheDownloadFinishes ==
    last.op = "updateExternalModels" =>
        /\ last.thrown # "none" => modelFiles = last.before
        /\ last.thrown = "none" =>
              \A externalModels \in Batches :
                  (/\ Len(externalModels) = last.n
                   /\ applyExternalModels(last.before, externalModels) = Result(modelFiles, "none")) =>
                      \A ns \in changedInFlight :
                          (\A i \in 1..Len(externalModels) : externalModels[i].namespace # ns) =>
                              entry(modelFiles, ns) = entry(last.before, ns)

\* C30 witness: an updateExternalModels failed on what was downloaded after
\* other calls had changed the registry while the download was in flight
C30_Witness ==
    /\ last.op = "updateExternalModels"
    /\ last.thrown \notin {"none", "Download"}
    /\ changedInFlight # {}
    /\ modelFiles # called

====
